---- MODULE Spec2Model ----
(***************************************************************************)
(* A model of volcengine_kit: the queue capacity matcher                   *)
(* (client.py, data/_receive.py, _service.py), the task lifecycle tracker  *)
(* (task.py), the remote calls of _service.py and the entry points of      *)
(* client.py (stop_task, delete_task, submit_task).                        *)
(*                                                                         *)
(* The variables come in groups (v_, q_, t_ r_ w_ k_ n_, s_, p_, u_, g_),   *)
(* and the specifications are:                                             *)
(*   SpecVacant  the pure predicates fit_flavor / is_vacant_for            *)
(*   SpecQueue   one call of _find_optimal_queue against a platform        *)
(*   SpecTrack   the tracker thread of one task, the platform and a reader *)
(*   LiveTrack   SpecTrack with the fairness of a running thread           *)
(*   SpecWait    the tracker thread and a coroutine awaiting finished()    *)
(*   LiveWait    SpecWait with the fairness of the thread and the coroutine *)
(*   SpecTask    VolcMLPlatformTask.__init__ and the thread it starts      *)
(*   SpecService call_api and the lookups built on it                      *)
(*   SpecStop    stop_task and delete_task                                 *)
(*   SpecSubmit  submit_task under the handle_exceptions decorator         *)
(*   SpecChats   list_group_chats (utils.py) against a paging chat service *)
(*   LiveChats   SpecChats with the fairness of the call and of a last     *)
(*               response of the service                                   *)
(* The variables of the groups a specification does not use stay idle.     *)
(***************************************************************************)
EXTENDS Integers, Sequences, FiniteSets, TLC

(***************************************************************************)
(* Bounds of the model.                                                    *)
(***************************************************************************)
\* Largest quantity of a resource (vCPU, memory, GPUs, volumes of one item).
MaxRes == 3
\* Largest safety buffer a caller passes.
MaxBuffer == 1
\* Longest VolumeCapability / VolumeAllocated list.
MaxVols == 2
\* Longest backup_qids list.
MaxBackups == 2

\* Value at which the count of the tracker's status queries stops growing.
MaxQueries == 3
\* Value at which the count of consecutive failed queries stops growing.
MaxFails == 2

ResVals == 0..MaxRes
BufVals == 0..MaxBuffer

(***************************************************************************)
(* State.                                                                  *)
(***************************************************************************)
\* SpecVacant: the drawn pool, flavor and buffers, and the two verdicts.
VARIABLES v_pc, v_q, v_flavor, v_buf, v_fit, v_vacant
\* SpecQueue: the platform's answers, the arguments of the call, the locals
\* of _find_optimal_queue, the log of GetResourceQueue calls and the outcome.
VARIABLES q_platform, q_flavor_id, q_backup_qids, q_buf,
          q_pc, q_i, q_default_q, q_queried, q_ret, q_exc
\* SpecTrack: the task on the platform, whether GetCustomTask succeeds now,
\* the task object (_status, _rlock), the tracker thread (its position, its
\* local `status`), a reader of two properties (its position and what it
\* read), and history: the number of responses, of tracker queries, of
\* consecutive failed queries, and the status __init__ stored.
VARIABLES t_platform, t_up, t_status, t_rlock, t_pc, t_local,
          t_responses, t_queries, t_fails, t_initial,
          r_pc, r_state, r_finish_time
\* SpecWait: the position of a coroutine that awaits finished().
VARIABLES w_pc
\* SpecTask: the construction of the task object: the position of __init__,
\* its arguments, the exception it raised, the warnings it logged and the
\* requests it sent to the platform; the arguments of the tracker thread, the
\* duration of its last sleep and the chat messages sent so far.
VARIABLES k_pc, k_args, k_exc, k_warnings, k_calls,
          t_args, t_slept, n_sent
\* SpecService: one call of a method of VolcMLPlatformService: the method,
\* its arguments (the API name, whether the ID is a string), what the network
\* gives back, and the outcome of the call.
VARIABLES s_pc, s_fn, s_api, s_id_is_str, s_net, s_out
\* SpecStop: one call of stop_task or delete_task: the method and whether the
\* task ID is a string, what the network gave back to the preliminary query
\* and to the request, the status the query returned, the requests sent, the
\* log and the outcome.
VARIABLES p_pc, p_op, p_id_is_str, p_qnet, p_status, p_rnet, p_calls, p_log, p_out
\* SpecSubmit: one call of submit_task: its position, whether the client was
\* built with bot credentials (its _lark_client is set), the arguments
\* handle_exceptions and tracking_interval, the steps that succeeded, the
\* queue selected, the exception a step raised and the outcome of the call.
VARIABLES u_pc, u_lark_client, u_handle, u_interval, u_steps, u_q, u_error, u_out
\* SpecChats: one call of list_group_chats: its position, the response it
\* holds, its locals chat_ids and page_token, the value returned, and
\* history: the token of the last request, the count of requests and the
\* chat IDs of the pages the service has served, in the order served.
VARIABLES g_pc, g_response, g_chat_ids, g_page_token, g_out,
          g_sent, g_requests, g_served

vvars == <<v_pc, v_q, v_flavor, v_buf, v_fit, v_vacant>>
qvars == <<q_platform, q_flavor_id, q_backup_qids, q_buf,
           q_pc, q_i, q_default_q, q_queried, q_ret, q_exc>>
tvars == <<t_platform, t_up, t_status, t_rlock, t_pc, t_local,
           t_responses, t_queries, t_fails, t_initial,
           r_pc, r_state, r_finish_time, w_pc,
           k_pc, k_args, k_exc, k_warnings, k_calls,
           t_args, t_slept, n_sent>>
svars == <<s_pc, s_fn, s_api, s_id_is_str, s_net, s_out>>
\* The groups other than the matcher's and the task's.
pvars == <<p_pc, p_op, p_id_is_str, p_qnet, p_status, p_rnet, p_calls, p_log, p_out>>
uvars == <<u_pc, u_lark_client, u_handle, u_interval, u_steps, u_q, u_error, u_out>>
gvars == <<g_pc, g_response, g_chat_ids, g_page_token, g_out,
           g_sent, g_requests, g_served>>
xvars == <<svars, pvars, uvars, gvars>>
vars == <<vvars, qvars, tvars, xvars>>

None == "none"
\* No queue object (a local that is not bound yet).
NoQueue == [Id |-> None]

\* The variables of a specification that is not running.
VIdle ==
    /\ v_pc = "idle"
    /\ v_q = None
    /\ v_flavor = None
    /\ v_buf = None
    /\ v_fit = None
    /\ v_vacant = None
QIdle ==
    /\ q_platform = None
    /\ q_flavor_id = None
    /\ q_backup_qids = <<>>
    /\ q_buf = None
    /\ q_pc = "idle"
    /\ q_i = 0
    /\ q_default_q = NoQueue
    /\ q_queried = <<>>
    /\ q_ret = NoQueue
    /\ q_exc = None
TIdle ==
    /\ t_platform = None
    /\ t_up = TRUE
    /\ t_status = None
    /\ t_rlock = None
    /\ t_pc = "idle"
    /\ t_local = None
    /\ t_responses = 0
    /\ t_queries = 0
    /\ t_fails = 0
    /\ t_initial = None
    /\ r_pc = "idle"
    /\ r_state = None
    /\ r_finish_time = None
    /\ w_pc = "idle"
    /\ k_pc = "idle"
    /\ k_args = None
    /\ k_exc = None
    /\ k_warnings = {}
    /\ k_calls = <<>>
    /\ t_args = None
    /\ t_slept = 0
    /\ n_sent = <<>>
SIdle ==
    /\ s_pc = "idle"
    /\ s_fn = None
    /\ s_api = None
    /\ s_id_is_str = TRUE
    /\ s_net = None
    /\ s_out = None
\* The specifications other than the matcher's and the task's are not running.
PIdle ==
    /\ p_pc = "idle"
    /\ p_op = None
    /\ p_id_is_str = TRUE
    /\ p_qnet = None
    /\ p_status = None
    /\ p_rnet = None
    /\ p_calls = <<>>
    /\ p_log = <<>>
    /\ p_out = None
UIdle ==
    /\ u_pc = "idle"
    /\ u_lark_client = FALSE
    /\ u_handle = None
    /\ u_interval = None
    /\ u_steps = <<>>
    /\ u_q = None
    /\ u_error = None
    /\ u_out = None
GIdle ==
    /\ g_pc = "idle"
    /\ g_response = None
    /\ g_chat_ids = <<>>
    /\ g_page_token = ""
    /\ g_out = None
    /\ g_sent = ""
    /\ g_requests = 0
    /\ g_served = <<>>
XIdle == SIdle /\ PIdle /\ UIdle /\ GIdle

(***************************************************************************)
(* Flavors (FlavorModel, data/_receive.py 30-54).  Type is one of the five *)
(* literals of the model; only 'GPU型' and '高性能计算GPU型' are told apart   *)
(* by the code, the other three are represented by "General".              *)
(***************************************************************************)
TypeGeneral == "General"
TypeGPU == "GPU"
TypeHPC == "HPC-GPU"

Flavor(id, type, deprecated, vcpu, memory, gputype, gpunum) ==
    [Id |-> id, Type |-> type, Deprecated |-> deprecated, vCPU |-> vcpu,
     Memory |-> memory, GPUType |-> gputype, GPUNum |-> gpunum]

\* A catalogue of flavors, as ListFlavorsV2 would return it.
Catalogue ==
    { Flavor("ml.g.small", TypeGeneral, FALSE, 1, 1, "", 0),
      Flavor("ml.g.large", TypeGeneral, FALSE, 2, 2, "", 0),
      \* a non-GPU-type flavor that nevertheless names GPUs
      Flavor("ml.c.odd", TypeGeneral, FALSE, 1, 1, "A", 2),
      Flavor("ml.gpu.a", TypeGPU, FALSE, 1, 2, "A", 1),
      Flavor("ml.gpu.a2", TypeGPU, FALSE, 2, 1, "A", 2),
      \* a GPU type no pool of the model holds
      Flavor("ml.xni.b", TypeGPU, FALSE, 1, 1, "X3C", 1),
      Flavor("ml.hpc", TypeHPC, FALSE, 1, 1, "A", 1),
      Flavor("ml.old", TypeGeneral, TRUE, 1, 1, "", 0) }

(***************************************************************************)
(* Resource pools (GetResourceQueueResultModel, data/_receive.py 60-149).  *)
(* GPUResources is a dict: a function on the GPU types it holds.           *)
(***************************************************************************)
RECURSIVE SumSeq(_)
\* sum(x.Num for x in items)
SumSeq(s) == IF s = <<>> THEN 0 ELSE Head(s) + SumSeq(Tail(s))

\* dict.get(key, 0)
DictGet(d, key) == IF key \in DOMAIN d THEN d[key] ELSE 0

Quota(vcpu, memory, gpus) == [VCPU |-> vcpu, Memory |-> memory, GPUResources |-> gpus]

Pool(zone, cap, alloc, volcap, volalloc) ==
    [ZoneId |-> zone, QuotaCapability |-> cap, QuotaAllocated |-> alloc,
     VolumeCapability |-> volcap, VolumeAllocated |-> volalloc]

total_cpu(q) == q.QuotaCapability.VCPU
allocated_cpu(q) == q.QuotaAllocated.VCPU
vacant_cpu(q) == total_cpu(q) - allocated_cpu(q)

total_memory(q) == q.QuotaCapability.Memory
allocated_memory(q) == q.QuotaAllocated.Memory
vacant_memory(q) == total_memory(q) - allocated_memory(q)

total_gpu(q, type) == DictGet(q.QuotaCapability.GPUResources, type)
allocated_gpu(q, type) == DictGet(q.QuotaAllocated.GPUResources, type)
vacant_gpu(q, type) == total_gpu(q, type) - allocated_gpu(q, type)

vacant_volume(q) == SumSeq(q.VolumeCapability) - SumSeq(q.VolumeAllocated)

\* A slip of the comparison: the capacity has to exceed the flavor's vCPU.
fit_flavor_StrictCpu(q, flavor) ==
    IF flavor.Type = TypeHPC THEN FALSE
    ELSE LET cpu_ok == total_cpu(q) > flavor.vCPU
             memory_ok == total_memory(q) >= flavor.Memory
             gpu_ok == IF flavor.Type = TypeGPU
                       THEN total_gpu(q, flavor.GPUType) >= flavor.GPUNum
                       ELSE TRUE
         IN cpu_ok /\ memory_ok /\ gpu_ok

\* Check if the capacity of queue can hold provided flavor.
fit_flavor(q, flavor) ==
    IF flavor.Type = TypeHPC THEN FALSE
    ELSE LET cpu_ok == total_cpu(q) >= flavor.vCPU
             memory_ok == total_memory(q) >= flavor.Memory
             gpu_ok == IF flavor.Type = TypeGPU
                       THEN total_gpu(q, flavor.GPUType) >= flavor.GPUNum
                       ELSE TRUE
         IN cpu_ok /\ memory_ok /\ gpu_ok

\* A slip of the comparison: the CPU buffer is left out.
is_vacant_for_NoCpuBuffer(q, flavor, cpu_buffer, memory_buffer, volume_buffer) ==
    IF flavor.Type = TypeHPC THEN FALSE
    ELSE LET gpu_ok == IF flavor.Type = TypeGPU
                       THEN vacant_gpu(q, flavor.GPUType) >= flavor.GPUNum
                       ELSE TRUE
             cpu_ok == vacant_cpu(q) >= flavor.vCPU
             memory_ok == vacant_memory(q) >= flavor.Memory + memory_buffer
             volume_ok == vacant_volume(q) >= volume_buffer
         IN gpu_ok /\ cpu_ok /\ memory_ok /\ volume_ok

\* Check if vacant resources in queue allow provided flavor.
is_vacant_for(q, flavor, cpu_buffer, memory_buffer, volume_buffer) ==
    IF flavor.Type = TypeHPC THEN FALSE
    ELSE LET gpu_ok == IF flavor.Type = TypeGPU
                       THEN vacant_gpu(q, flavor.GPUType) >= flavor.GPUNum
                       ELSE TRUE
             cpu_ok == vacant_cpu(q) >= flavor.vCPU + cpu_buffer
             memory_ok == vacant_memory(q) >= flavor.Memory + memory_buffer
             volume_ok == vacant_volume(q) >= volume_buffer
         IN gpu_ok /\ cpu_ok /\ memory_ok /\ volume_ok

(***************************************************************************)
(* The pools the predicates are tried on: a roomy pool, changed in one     *)
(* resource dimension at a time to every capability / allocation of the    *)
(* bounded ranges.                                                         *)
(***************************************************************************)
GpuDicts == { <<>> } \cup { [t \in {"A"} |-> n] : n \in ResVals }
                     \cup { [t \in {"A", "B"} |-> n] : n \in ResVals }

RECURSIVE SeqsUpTo(_, _)
SeqsUpTo(S, n) ==
    IF n = 0 THEN { <<>> }
    ELSE LET shorter == SeqsUpTo(S, n - 1)
         IN shorter \cup { Append(s, x) : s \in shorter, x \in S }

VolLists == SeqsUpTo({0, MaxRes}, MaxVols)

RoomyGpus == [t \in {"A", "B"} |-> MaxRes]
RoomyVols == << MaxRes >>

PoolsCpu == { Pool("za", Quota(c, MaxRes, RoomyGpus), Quota(a, 0, <<>>), RoomyVols, <<>>) :
                c \in ResVals, a \in ResVals }
PoolsMemory == { Pool("za", Quota(MaxRes, c, RoomyGpus), Quota(0, a, <<>>), RoomyVols, <<>>) :
                c \in ResVals, a \in ResVals }
PoolsGpu == { Pool("za", Quota(MaxRes, MaxRes, c), Quota(0, 0, a), RoomyVols, <<>>) :
                c \in GpuDicts, a \in GpuDicts }
PoolsVolume == { Pool("za", Quota(MaxRes, MaxRes, RoomyGpus), Quota(0, 0, <<>>), c, a) :
                c \in VolLists, a \in VolLists }
PoolSet == PoolsCpu \cup PoolsMemory \cup PoolsGpu \cup PoolsVolume

(***************************************************************************)
(* SpecVacant: the predicates applied to one drawn pool, flavor and        *)
(* buffers.                                                                *)
(***************************************************************************)
VInit ==
    /\ v_pc = "args"
    /\ v_q \in PoolSet
    /\ v_flavor \in Catalogue
    /\ v_buf \in [cpu : BufVals, memory : BufVals, volume : BufVals]
    /\ v_fit = None
    /\ v_vacant = None
    /\ QIdle
    /\ TIdle
    /\ XIdle

VFitFlavor ==
    /\ v_pc = "args"
    /\ v_fit' = fit_flavor(v_q, v_flavor)
    /\ v_pc' = "fitted"
    /\ UNCHANGED <<v_q, v_flavor, v_buf, v_vacant, qvars, tvars, xvars>>

VIsVacantFor ==
    /\ v_pc = "fitted"
    /\ v_vacant' = is_vacant_for(v_q, v_flavor, v_buf.cpu, v_buf.memory, v_buf.volume)
    /\ v_pc' = "done"
    /\ UNCHANGED <<v_q, v_flavor, v_buf, v_fit, qvars, tvars, xvars>>

VNext == VFitFlavor \/ VIsVacantFor

SpecVacant == VInit /\ [][VNext]_vars

(***************************************************************************)
(* C4: a pool qualifies exactly when its headroom is non-negative in every *)
(* dimension: vacant CPU - vCPU - cpu_buffer >= 0, vacant memory - Memory  *)
(* - memory_buffer >= 0, for a GPU-type flavor vacant GPUs of its type -   *)
(* GPUNum >= 0, and vacant volumes - volume_buffer >= 0; a flavor of the   *)
(* high-performance-computing GPU type never qualifies.                    *)
(***************************************************************************)
C4_Headroom ==
    LET q == v_q
        f == v_flavor
        cpu == (q.QuotaCapability.VCPU - q.QuotaAllocated.VCPU) - f.vCPU - v_buf.cpu
        mem == (q.QuotaCapability.Memory - q.QuotaAllocated.Memory) - f.Memory - v_buf.memory
        gpu == (DictGet(q.QuotaCapability.GPUResources, f.GPUType)
                 - DictGet(q.QuotaAllocated.GPUResources, f.GPUType)) - f.GPUNum
        vol == (SumSeq(q.VolumeCapability) - SumSeq(q.VolumeAllocated)) - v_buf.volume
    IN /\ f.Type # TypeHPC
       /\ cpu >= 0
       /\ mem >= 0
       /\ (f.Type = TypeGPU => gpu >= 0)
       /\ vol >= 0

C4_VacantIffHeadroom ==
    v_pc = "done" => (v_vacant = C4_Headroom)

\* The boundary: a GPU flavor that just fits (CPU headroom exactly 0) and qualifies.
C4_Witness ==
    /\ v_pc = "done"
    /\ v_vacant = TRUE
    /\ v_flavor.Type = TypeGPU
    /\ v_buf.cpu > 0
    /\ vacant_cpu(v_q) = v_flavor.vCPU + v_buf.cpu

(***************************************************************************)
(* SpecQueue: one call of VolcMLPlatformClient._find_optimal_queue         *)
(* (client.py 81-135) against a platform that answers GetResourceQueue.    *)
(***************************************************************************)
\* What the platform answers to GetResourceQueue for one queue ID: the error
\* code of a failed call ("" when the call succeeded) and the Result fields.
Answer(code, role, state, pool) ==
    [Code |-> code, Role |-> role, State |-> state, Pool |-> pool]

Gpus(n) == [t \in {"A", "B"} |-> n]
RoomyPool(zone) ==
    Pool(zone, Quota(MaxRes, MaxRes, Gpus(MaxRes)), Quota(0, 0, <<>>), <<MaxRes>>, <<>>)
\* one vCPU, one unit of memory, one GPU and no volume left
TightPool(zone) ==
    Pool(zone, Quota(MaxRes, MaxRes, Gpus(MaxRes)),
         Quota(MaxRes - 1, MaxRes - 1, Gpus(MaxRes - 1)), <<MaxRes>>, <<MaxRes>>)
\* everything allocated
FullPool(zone) ==
    Pool(zone, Quota(MaxRes, MaxRes, Gpus(MaxRes)),
         Quota(MaxRes, MaxRes, Gpus(MaxRes)), <<MaxRes>>, <<MaxRes>>)
\* a small pool without GPUs, nothing allocated
SmallPool(zone) ==
    Pool(zone, Quota(1, 1, <<>>), Quota(0, 0, <<>>), <<MaxRes>>, <<>>)

Answers ==
    { Answer("ResourceNotFound", "", "", RoomyPool("za")),
      Answer("InternalError", "", "", RoomyPool("za")),
      Answer("", "", "Running", RoomyPool("za")),
      Answer("", "Admin", "Stopped", RoomyPool("za")) }
    \cup { Answer("", "Admin", "Running", p) :
             p \in { RoomyPool("za"), TightPool("za"), FullPool("za"), SmallPool("za"),
                     RoomyPool("zb"), RoomyPool("zc") } }

\* The result of list_flavors: zone "za" offers the whole catalogue, zone
\* "zb" no GPU-type flavor, and zone "zc" is not listed at all.
ById(flavors) == [id \in { f.Id : f \in flavors } |-> CHOOSE f \in flavors : f.Id = id]
FlavorsByZone ==
    [z \in {"za", "zb"} |->
        IF z = "za" THEN ById(Catalogue)
        ELSE ById({ f \in Catalogue : f.Type # TypeGPU })]

DefaultQid == "q0"
BackupQids == {"q1", "q2"}
QueueIds == {DefaultQid} \cup BackupQids
FlavorIds == {"ml.g.small", "ml.g.large", "ml.gpu.a", "ml.hpc", "ml.old"}
\* cpu_buffer, memory_buffer, volume_buffer
BufferArgs ==
    { <<0, 0, 0>>, <<MaxBuffer, 0, 0>>, <<0, MaxBuffer, 0>>, <<0, 0, MaxBuffer>> }

Raise(kind) == [exc |-> kind, val |-> None]
Return(v) == [exc |-> None, val |-> v]

\* VolcMLPlatformService.get_resource_queue
get_resource_queue(platform, qid) ==
    LET resp == platform[qid]
    IN IF resp.Code # ""
       THEN IF resp.Code \in {"InvalidParameter", "ResourceNotFound"}
            THEN Raise("ValueError")
            ELSE Raise("CallVolcAPIError")
       ELSE IF resp.Role = "" THEN Raise("ValueError")
       ELSE IF resp.State # "Running" THEN Raise("ValueError")
       ELSE Return([Id |-> qid, Pool |-> resp.Pool])

\* The closure is_queue_vacant of _find_optimal_queue.
is_queue_vacant(flavors_by_zone, flavor_id, buf, q) ==
    IF q.Pool.ZoneId \notin DOMAIN flavors_by_zone THEN Raise("KeyError")
    ELSE LET zone_flavors == flavors_by_zone[q.Pool.ZoneId]
         IN IF flavor_id \notin DOMAIN zone_flavors THEN Raise("ValueError")
            ELSE LET flavor == zone_flavors[flavor_id]
                 IN IF flavor.Deprecated THEN Raise("ValueError")
                    ELSE IF ~ fit_flavor(q.Pool, flavor) THEN Raise("ValueError")
                    ELSE Return(is_vacant_for(q.Pool, flavor, buf[1], buf[2], buf[3]))

\* The arguments and the platform never change during the call.
qargs == <<q_platform, q_flavor_id, q_backup_qids, q_buf, vvars, tvars, xvars>>

QInit ==
    /\ q_platform \in [QueueIds -> Answers]
    /\ q_flavor_id \in FlavorIds
    /\ q_backup_qids \in SeqsUpTo(QueueIds, MaxBackups)
    /\ q_buf \in BufferArgs
    /\ q_pc = "call"
    /\ q_i = 0
    /\ q_default_q = NoQueue
    /\ q_queried = <<>>
    /\ q_ret = NoQueue
    /\ q_exc = None
    /\ VIdle
    /\ TIdle
    /\ XIdle

\* Lines 94-102: flavor_id is a string and the three buffers are non-negative
\* numbers.  Every flavor ID of the model is a string.
valid_arguments(flavor_id, buf) ==
    /\ flavor_id \in STRING
    /\ \A k \in DOMAIN buf : buf[k] >= 0

\* A slip: an error of the default queue is logged and skipped like a backup's.
FindDefault_SoftError ==
    /\ q_pc = "call"
    /\ valid_arguments(q_flavor_id, q_buf)
    /\ q_queried' = Append(q_queried, DefaultQid)
    /\ LET got == get_resource_queue(q_platform, DefaultQid)
           vac == IF got.exc # None THEN got
                  ELSE is_queue_vacant(FlavorsByZone, q_flavor_id, q_buf, got.val)
       IN IF vac.exc # None
          THEN /\ q_pc' = "loop"
               /\ q_i' = 1
               /\ q_default_q' = [Id |-> DefaultQid, Pool |-> q_platform[DefaultQid].Pool]
               /\ UNCHANGED <<q_ret, q_exc>>
          ELSE IF vac.val
          THEN /\ q_pc' = "returned"
               /\ q_ret' = got.val
               /\ q_default_q' = got.val
               /\ UNCHANGED <<q_i, q_exc>>
          ELSE /\ q_pc' = "loop"
               /\ q_i' = 1
               /\ q_default_q' = got.val
               /\ UNCHANGED <<q_ret, q_exc>>
    /\ UNCHANGED qargs

\* A slip: the default queue is not preferred; the backups are tried first.
FindDefault_NotPreferred ==
    /\ q_pc = "call"
    /\ valid_arguments(q_flavor_id, q_buf)
    /\ q_queried' = Append(q_queried, DefaultQid)
    /\ LET got == get_resource_queue(q_platform, DefaultQid)
           vac == IF got.exc # None THEN got
                  ELSE is_queue_vacant(FlavorsByZone, q_flavor_id, q_buf, got.val)
       IN IF vac.exc # None
          THEN /\ q_pc' = "raised"
               /\ q_exc' = vac.exc
               /\ UNCHANGED <<q_i, q_default_q, q_ret>>
          ELSE /\ q_pc' = "loop"
               /\ q_i' = 1
               /\ q_default_q' = got.val
               /\ UNCHANGED <<q_ret, q_exc>>
    /\ UNCHANGED qargs

\* Lines 94-119: the arguments pass the checks (the model draws no others),
\* the default queue is fetched and evaluated; an error of either is raised,
\* a vacant default queue is returned.
FindDefault ==
    /\ q_pc = "call"
    /\ valid_arguments(q_flavor_id, q_buf)
    /\ q_queried' = Append(q_queried, DefaultQid)
    /\ LET got == get_resource_queue(q_platform, DefaultQid)
           vac == IF got.exc # None THEN got
                  ELSE is_queue_vacant(FlavorsByZone, q_flavor_id, q_buf, got.val)
       IN IF vac.exc # None
          THEN /\ q_pc' = "raised"
               /\ q_exc' = vac.exc
               /\ UNCHANGED <<q_i, q_default_q, q_ret>>
          ELSE IF vac.val
          THEN /\ q_pc' = "returned"
               /\ q_ret' = got.val
               /\ q_default_q' = got.val
               /\ UNCHANGED <<q_i, q_exc>>
          ELSE /\ q_pc' = "loop"
               /\ q_i' = 1
               /\ q_default_q' = got.val
               /\ UNCHANGED <<q_ret, q_exc>>
    /\ UNCHANGED qargs

\* A slip: the try block is missing, so a backup's error leaves the function.
FindBackup_ErrorEscapes ==
    /\ q_pc = "loop"
    /\ q_i <= Len(q_backup_qids)
    /\ q_queried' = Append(q_queried, q_backup_qids[q_i])
    /\ LET got == get_resource_queue(q_platform, q_backup_qids[q_i])
           vac == IF got.exc # None THEN got
                  ELSE is_queue_vacant(FlavorsByZone, q_flavor_id, q_buf, got.val)
       IN IF vac.exc # None
          THEN /\ q_pc' = "raised"
               /\ q_exc' = vac.exc
               /\ UNCHANGED <<q_i, q_ret>>
          ELSE IF vac.val
          THEN /\ q_pc' = "returned"
               /\ q_ret' = got.val
               /\ UNCHANGED <<q_i, q_exc>>
          ELSE /\ q_i' = q_i + 1
               /\ UNCHANGED <<q_pc, q_ret, q_exc>>
    /\ UNCHANGED <<qargs, q_default_q>>

\* A slip: the loop goes on after a vacant backup and returns the last one.
FindBackup_KeepsLooking ==
    /\ q_pc = "loop"
    /\ q_i <= Len(q_backup_qids)
    /\ q_queried' = Append(q_queried, q_backup_qids[q_i])
    /\ LET got == get_resource_queue(q_platform, q_backup_qids[q_i])
           vac == IF got.exc # None THEN got
                  ELSE is_queue_vacant(FlavorsByZone, q_flavor_id, q_buf, got.val)
       IN IF vac.exc = None /\ vac.val
          THEN /\ q_ret' = got.val
               /\ q_pc' = IF q_i = Len(q_backup_qids) THEN "returned" ELSE "loop"
               /\ q_i' = q_i + 1
               /\ UNCHANGED q_exc
          ELSE /\ q_i' = q_i + 1
               /\ q_pc' = IF q_i = Len(q_backup_qids) /\ q_ret.Id # None
                          THEN "returned" ELSE "loop"
               /\ UNCHANGED <<q_ret, q_exc>>
    /\ UNCHANGED <<qargs, q_default_q>>

\* Lines 122-133: one pass of the loop over backup_qids.  An exception of the
\* fetch or of the evaluation is logged and the loop continues.
FindBackup ==
    /\ q_pc = "loop"
    /\ q_i <= Len(q_backup_qids)
    /\ q_queried' = Append(q_queried, q_backup_qids[q_i])
    /\ LET got == get_resource_queue(q_platform, q_backup_qids[q_i])
           vac == IF got.exc # None THEN got
                  ELSE is_queue_vacant(FlavorsByZone, q_flavor_id, q_buf, got.val)
       IN IF vac.exc # None
          THEN /\ q_i' = q_i + 1
               /\ UNCHANGED <<q_pc, q_ret, q_exc>>
          ELSE IF vac.val
          THEN /\ q_pc' = "returned"
               /\ q_ret' = got.val
               /\ UNCHANGED <<q_i, q_exc>>
          ELSE /\ q_i' = q_i + 1
               /\ UNCHANGED <<q_pc, q_ret, q_exc>>
    /\ UNCHANGED <<qargs, q_default_q>>

\* A slip: with no vacant backup the function raises instead of falling back.
FindFallback_Raises ==
    /\ q_pc = "loop"
    /\ q_i > Len(q_backup_qids)
    /\ q_pc' = "raised"
    /\ q_exc' = "ValueError"
    /\ UNCHANGED <<qargs, q_i, q_default_q, q_queried, q_ret>>

\* Line 135: the loop is over, the default queue is returned.
FindFallback ==
    /\ q_pc = "loop"
    /\ q_i > Len(q_backup_qids)
    /\ q_pc' = "returned"
    /\ q_ret' = q_default_q
    /\ UNCHANGED <<qargs, q_i, q_default_q, q_queried, q_exc>>

QNext == FindDefault \/ FindBackup \/ FindFallback

SpecQueue == QInit /\ [][QNext]_vars

(***************************************************************************)
(* _find_optimal_queue as a function of its arguments and of the           *)
(* platform's answers: the outcome of the whole call.                      *)
(***************************************************************************)
RECURSIVE first_vacant_backup(_, _, _, _)
\* Lines 122-133: the first backup that is fetched, evaluated without an
\* exception and vacant; NoQueue when the loop ends without a return.
first_vacant_backup(platform, flavor_id, buf, qids) ==
    IF qids = <<>> THEN NoQueue
    ELSE LET got == get_resource_queue(platform, Head(qids))
             vac == IF got.exc # None THEN got
                    ELSE is_queue_vacant(FlavorsByZone, flavor_id, buf, got.val)
         IN IF vac.exc = None /\ vac.val
            THEN got.val
            ELSE first_vacant_backup(platform, flavor_id, buf, Tail(qids))

find_optimal_queue(platform, flavor_id, buf, default_qid, backup_qids) ==
    LET got == get_resource_queue(platform, default_qid)
        vac == IF got.exc # None THEN got
               ELSE is_queue_vacant(FlavorsByZone, flavor_id, buf, got.val)
    IN IF vac.exc # None THEN Raise(vac.exc)
       ELSE IF vac.val THEN Return(got.val)
       ELSE LET backup_q == first_vacant_backup(platform, flavor_id, buf, backup_qids)
            IN IF backup_q.Id # None THEN Return(backup_q) ELSE Return(got.val)

(***************************************************************************)
(* Vocabulary of the claims about the matcher.                             *)
(***************************************************************************)
\* Fetching and evaluating queue `qid` in this call: an exception or a verdict.
Try(qid) ==
    LET got == get_resource_queue(q_platform, qid)
    IN IF got.exc # None THEN got
       ELSE is_queue_vacant(FlavorsByZone, q_flavor_id, q_buf, got.val)
\* The pool is fetched, is a valid pairing for the flavor and has headroom.
Qualifies(qid) == Try(qid).exc = None /\ Try(qid).val
\* The pool is fetched and is a valid pairing for the flavor, without headroom.
ValidButBusy(qid) == Try(qid).exc = None /\ ~ Try(qid).val
QFinished == q_pc \in {"returned", "raised"}
QCalled == q_pc \in {"loop", "returned", "raised"}
\* The queue IDs the loop visits, in order, after the default queue.
VisitOrder == <<DefaultQid>> \o q_backup_qids
FirstQualifying ==
    CHOOSE k \in DOMAIN q_backup_qids :
        /\ Qualifies(q_backup_qids[k])
        /\ \A j \in 1..(k - 1) : ~ Qualifies(q_backup_qids[j])

\* The headroom of a pool by the numbers alone: the platform holds the pool,
\* the flavor is listed for the pool's zone, and is_vacant_for decides.
HeadroomKnown(qid) ==
    /\ q_platform[qid].Code = ""
    /\ q_platform[qid].Pool.ZoneId \in DOMAIN FlavorsByZone
    /\ q_flavor_id \in DOMAIN FlavorsByZone[q_platform[qid].Pool.ZoneId]
HeadroomOf(qid) ==
    is_vacant_for(q_platform[qid].Pool,
                  FlavorsByZone[q_platform[qid].Pool.ZoneId][q_flavor_id],
                  q_buf[1], q_buf[2], q_buf[3])
InsufficientHeadroom(qid) == HeadroomKnown(qid) /\ ~ HeadroomOf(qid)

(***************************************************************************)
(* C1: whenever the default pool is a valid pairing for the flavor and has *)
(* sufficient headroom with the caller's buffers, the default pool is      *)
(* returned, for every list of backups, and no backup pool is queried.     *)
(***************************************************************************)
C1_DefaultPreferred ==
    (QCalled /\ Qualifies(DefaultQid)) =>
        /\ q_pc = "returned"
        /\ q_exc = None
        /\ q_ret.Id = DefaultQid
        /\ q_ret.Pool = q_platform[DefaultQid].Pool
        /\ q_queried = <<DefaultQid>>

\* The default queue is returned although a vacant backup is listed first
\* and a buffer is in force.
C1_Witness ==
    /\ q_pc = "returned"
    /\ q_ret.Id = DefaultQid
    /\ Len(q_backup_qids) = MaxBackups
    /\ Qualifies(q_backup_qids[1])
    /\ q_backup_qids[1] # DefaultQid
    /\ q_buf[1] > 0

(***************************************************************************)
(* C2, as stated: when the default pool has insufficient headroom and at   *)
(* least one backup pool has sufficient headroom (is fetched, valid and    *)
(* vacant), the call returns the first such backup in backup_qids order    *)
(* and queries no backup after it.  "Insufficient headroom" is read by the *)
(* numbers: is_vacant_for is false of the default pool.                    *)
(***************************************************************************)
C2_Original ==
    (/\ QFinished
     /\ InsufficientHeadroom(DefaultQid)
     /\ \E i \in DOMAIN q_backup_qids : Qualifies(q_backup_qids[i])) =>
        /\ q_pc = "returned"
        /\ \E k \in DOMAIN q_backup_qids :
            /\ Qualifies(q_backup_qids[k])
            /\ \A j \in 1..(k - 1) : ~ Qualifies(q_backup_qids[j])
            /\ q_ret.Id = q_backup_qids[k]
            /\ q_queried = SubSeq(VisitOrder, 1, k + 1)

(***************************************************************************)
(* C2, amended: when the default pool is fetched and is a valid pairing    *)
(* for the flavor but has insufficient headroom, and at least one backup   *)
(* pool is fetched, is a valid pairing and has sufficient headroom, the    *)
(* call returns the first such backup in backup_qids order, and queries    *)
(* exactly the default pool and the backups up to it.                      *)
(***************************************************************************)
C2_FirstQualifyingBackup ==
    (/\ QFinished
     /\ ValidButBusy(DefaultQid)
     /\ \E i \in DOMAIN q_backup_qids : Qualifies(q_backup_qids[i])) =>
        /\ q_pc = "returned"
        /\ q_exc = None
        /\ q_ret.Id = q_backup_qids[FirstQualifying]
        /\ q_ret.Pool = q_platform[q_ret.Id].Pool
        /\ q_queried = SubSeq(VisitOrder, 1, FirstQualifying + 1)

\* The second backup is returned: the first one is fetched but busy.
C2_Witness ==
    /\ q_pc = "returned"
    /\ ValidButBusy(DefaultQid)
    /\ Len(q_backup_qids) = MaxBackups
    /\ ValidButBusy(q_backup_qids[1])
    /\ q_ret.Id = q_backup_qids[2]
    /\ q_ret.Id # q_backup_qids[1]

(***************************************************************************)
(* C3, as stated: when neither the default pool nor any backup pool has    *)
(* sufficient headroom, the call returns the default pool, never a backup  *)
(* and never an error.  "Insufficient headroom" of the default pool is     *)
(* read by the numbers: is_vacant_for is false of it.                      *)
(***************************************************************************)
C3_Original ==
    (/\ QFinished
     /\ InsufficientHeadroom(DefaultQid)
     /\ \A i \in DOMAIN q_backup_qids : ~ Qualifies(q_backup_qids[i])) =>
        /\ q_pc = "returned"
        /\ q_exc = None
        /\ q_ret.Id = DefaultQid

(***************************************************************************)
(* C3, amended: when the default pool is fetched and is a valid pairing    *)
(* for the flavor but has insufficient headroom, and no backup pool is     *)
(* fetched, valid and with sufficient headroom, the call returns the       *)
(* default pool, never a backup and never an error, after querying every   *)
(* backup.                                                                 *)
(***************************************************************************)
C3_FallbackToDefault ==
    (/\ ValidButBusy(DefaultQid)
     /\ \A i \in DOMAIN q_backup_qids : ~ Qualifies(q_backup_qids[i])) =>
        /\ q_pc # "raised"
        /\ q_exc = None
        /\ q_pc = "returned" =>
            /\ q_ret.Id = DefaultQid
            /\ q_ret.Pool = q_platform[DefaultQid].Pool
            /\ q_queried = VisitOrder

\* The insufficient default queue is returned after two backups were tried,
\* one of them busy and one of them failing.
C3_Witness ==
    /\ q_pc = "returned"
    /\ q_ret.Id = DefaultQid
    /\ ~ Try(DefaultQid).val
    /\ Len(q_backup_qids) = MaxBackups
    /\ ValidButBusy(q_backup_qids[1])
    /\ Try(q_backup_qids[2]).exc # None

(***************************************************************************)
(* C5: any error while evaluating the default pool (not found, no role or  *)
(* not Running, flavor not offered in the zone, deprecated flavor, total   *)
(* capacity unable to hold the flavor) is raised at once: no backup pool   *)
(* is queried and no pool is returned.                                     *)
(***************************************************************************)
C5_DefaultErrorRaised ==
    (QCalled /\ Try(DefaultQid).exc # None) =>
        /\ q_pc = "raised"
        /\ q_exc = Try(DefaultQid).exc
        /\ q_ret.Id = None
        /\ q_queried = <<DefaultQid>>

\* The default pool cannot hold the flavor and the error is raised although
\* a vacant backup is listed.
C5_Witness ==
    /\ q_pc = "raised"
    /\ q_platform[DefaultQid].Code = ""
    /\ get_resource_queue(q_platform, DefaultQid).exc = None
    /\ ~ fit_flavor(q_platform[DefaultQid].Pool, FlavorsByZone["za"][q_flavor_id])
    /\ q_platform[DefaultQid].Pool.ZoneId = "za"
    /\ q_flavor_id = "ml.g.large"
    /\ Len(q_backup_qids) > 0
    /\ Qualifies(q_backup_qids[1])

(***************************************************************************)
(* C6: an error while fetching or evaluating a backup pool never leaves    *)
(* the call: the failing backup is skipped, the loop goes on with the next *)
(* backup in list order, and the outcome is that of the same call with the *)
(* failing backups removed from backup_qids.                               *)
(***************************************************************************)
BackupFails(qid) == Try(qid).exc # None
WithoutFailing == SelectSeq(q_backup_qids, LAMBDA qid : ~ BackupFails(qid))
OutcomeId(o) == IF o.exc # None THEN None ELSE o.val.Id
\* backup_qids without its k-th element
Without(k) ==
    SubSeq(q_backup_qids, 1, k - 1) \o SubSeq(q_backup_qids, k + 1, Len(q_backup_qids))

C6_BackupErrorsSkipped ==
    /\ q_queried = SubSeq(VisitOrder, 1, Len(q_queried))
    /\ (q_pc = "loop" /\ q_i <= Len(q_backup_qids)) => Len(q_queried) = q_i
    /\ q_exc # None => (q_exc = Try(DefaultQid).exc /\ Len(q_queried) = 1)
    /\ QFinished =>
        LET o == find_optimal_queue(q_platform, q_flavor_id, q_buf,
                                    DefaultQid, WithoutFailing)
        IN /\ q_exc = o.exc
           /\ q_ret.Id = OutcomeId(o)
    /\ QFinished =>
        \A k \in DOMAIN q_backup_qids :
            BackupFails(q_backup_qids[k]) =>
                LET o == find_optimal_queue(q_platform, q_flavor_id, q_buf,
                                            DefaultQid, Without(k))
                IN /\ q_exc = o.exc
                   /\ q_ret.Id = OutcomeId(o)

\* A failing backup was skipped and the backup after it returned.
C6_Witness ==
    /\ q_pc = "returned"
    /\ Len(q_backup_qids) = MaxBackups
    /\ BackupFails(q_backup_qids[1])
    /\ q_ret.Id = q_backup_qids[2]
    /\ q_queried = VisitOrder

(***************************************************************************)
(* SpecTrack: VolcMLPlatformTask after __init__ (task.py 30-180): the      *)
(* thread running _track, the platform the task runs on, and a caller      *)
(* reading the properties `state` and `finish_time`.                       *)
(***************************************************************************)
\* A terminal list that misses the two holding states.
terminal_task_states_NoHolding ==
    {"Success", "Failed", "Cancelled", "Killed", "Exception"}

\* _terminal_task_states
terminal_task_states ==
    {"Success", "SuccessHolding", "Failed", "FailedHolding",
     "Cancelled", "Killed", "Exception"}

\* The states GetCustomTask reports (GetCustomTaskResultModel.State), and the
\* moves of a task on the platform.
RunningStates == {"Queue", "Running", "Killing"}
EndedStates ==
    {"Success", "SuccessHolding", "Failed", "FailedHolding",
     "Cancelled", "Killed", "Exception"}
TaskStates == RunningStates \cup EndedStates
TaskMoves ==
    { <<"Queue", "Running">>, <<"Queue", "Cancelled">>,
      <<"Running", "Killing">>, <<"Running", "Success">>,
      <<"Running", "SuccessHolding">>, <<"Running", "Failed">>,
      <<"Running", "FailedHolding">>, <<"Running", "Exception">>,
      <<"Killing", "Killed">>,
      <<"SuccessHolding", "Success">>, <<"FailedHolding", "Failed">> }

\* The task as the platform holds it; FinishTime is '' until the task ends.
PlatformTask(state) ==
    [State |-> state, FinishTime |-> IF state \in EndedStates THEN "T" ELSE ""]

\* GetCustomTaskResultModel(**resp): FinishTime '' becomes None.  `resp` is
\* the number of the response the model was built from.
GetCustomTaskResultModel(task, resp) ==
    [State |-> task.State,
     FinishTime |-> IF task.FinishTime = "" THEN None ELSE task.FinishTime,
     Resp |-> resp]

\* The local `status` of _track before its first assignment.
NoStatus == [State |-> None, FinishTime |-> None, Resp |-> 0]

Min(a, b) == IF a <= b THEN a ELSE b

DEFAULT_TRACKING_INTERVAL == 10
MIN_TRACKING_INTERVAL == 5
MAX_TRACKING_INTERVAL == 300

\* A value passed as tracking_interval: a number of seconds, or a value that
\* is no int and no float (a string, None).
Number(v) == [num |-> TRUE, val |-> v]
NotANumber == [num |-> FALSE, val |-> 0]
\* An element of group_chat_ids: a string chat ID, or a value of another type.
ChatId(id) == [str |-> TRUE, id |-> id]
NotAString == [str |-> FALSE, id |-> "7"]
\* A value passed as group_chat_ids: a list, or a value that is no list.
List(items) == [list |-> TRUE, items |-> items]
NotAList == [list |-> FALSE, items |-> <<>>]

\* The arguments of VolcMLPlatformTask.__init__ the model varies.
TaskArgs(interval, lark, upon_creation, upon_termination, chats) ==
    [tracking_interval |-> interval,
     lark_client |-> lark,
     notify_upon_creation |-> upon_creation,
     notify_upon_termination |-> upon_termination,
     group_chat_ids |-> chats]
\* The arguments of the thread's target _track (line 85).
TrackArgs(interval, send_notification, chats) ==
    [tracking_interval |-> interval,
     send_notification |-> send_notification,
     group_chat_ids |-> chats]
NoTrackArgs == TrackArgs(0, FALSE, <<>>)

\* The arguments submit_task passes (client.py 313-321) when its caller
\* leaves tracking_interval at its default: no chat client, the notification
\* flags and the chat list at their defaults.
SubmitArgs_PassesChats(interval) ==
    TaskArgs(interval, TRUE, TRUE, TRUE, List(<<ChatId("c1")>>))
SubmitArgs(interval) == TaskArgs(interval, FALSE, TRUE, TRUE, List(<<>>))

\* utils.send_group_chat_message for every string element of the list
\* (lines 103-105 and 174-176): the messages appended to the chat log.
RECURSIVE Messages(_, _, _)
Messages(kind, state, chats) ==
    IF chats = <<>> THEN <<>>
    ELSE (IF Head(chats).str
          THEN <<[kind |-> kind, chat |-> Head(chats).id, state |-> state]>>
          ELSE <<>>)
         \o Messages(kind, state, Tail(chats))

\* The object and its thread after __init__ returned, for a task submitted
\* with the default interval.
Constructed ==
    /\ k_pc = "done"
    /\ k_args = SubmitArgs(Number(DEFAULT_TRACKING_INTERVAL))
    /\ k_exc = None
    /\ k_warnings = {}
    /\ k_calls = <<"CreateCustomTask", "GetCustomTask">>
    /\ t_args = TrackArgs(DEFAULT_TRACKING_INTERVAL, TRUE, <<>>)
    /\ t_slept = 0
    /\ n_sent = <<>>

\* __init__, lines 61-88: the task exists, its initial status is stored, the
\* lock is free and the tracker thread is started.
TInit ==
    /\ t_platform \in { PlatformTask(s) : s \in TaskStates }
    /\ t_up \in BOOLEAN
    /\ t_status = GetCustomTaskResultModel(t_platform, 0)
    /\ t_initial = t_status
    /\ t_rlock = None
    /\ t_pc = "check"
    /\ t_local = NoStatus
    /\ t_responses = 0
    /\ t_queries = 0
    /\ t_fails = 0
    /\ r_pc = "start"
    /\ r_state = [State |-> None, Resp |-> 0]
    /\ r_finish_time = [FinishTime |-> None, Resp |-> 0]
    /\ w_pc = "idle"
    /\ Constructed
    /\ VIdle
    /\ QIdle
    /\ XIdle

tenv == <<t_platform, t_up>>
ttask == <<t_status, t_rlock>>
tthread == <<t_pc, t_local>>
thist == <<t_responses, t_queries, t_fails, t_initial>>
treader == <<r_pc, r_state, r_finish_time>>
twait == <<w_pc>>
tctor == <<k_pc, k_args, k_exc, k_warnings, k_calls>>
tnote == <<t_args, t_slept, n_sent>>

\* The platform moves the task to its next state.
PlatformAdvance ==
    /\ t_pc # "idle"
    /\ \E s \in TaskStates :
        /\ <<t_platform.State, s>> \in TaskMoves
        /\ t_platform' = PlatformTask(s)
    /\ UNCHANGED <<t_up, ttask, tthread, thist, treader, twait, tctor, tnote,
                   vvars, qvars, xvars>>

\* GetCustomTask starts or stops failing (network, platform, credentials).
ServiceFlips ==
    /\ t_pc # "idle"
    /\ t_up' = ~ t_up
    /\ UNCHANGED <<t_platform, ttask, tthread, thist, treader, twait, tctor, tnote,
                   vvars, qvars, xvars>>

\* Line 160: the loop condition reads self.state.
TrackCheck ==
    /\ t_pc = "check"
    /\ t_pc' = IF t_status.State \notin terminal_task_states THEN "sleep" ELSE "exit"
    /\ UNCHANGED <<tenv, ttask, t_local, thist, treader, twait, tctor, tnote,
                   vvars, qvars, xvars>>

\* Line 161: time.sleep(tracking_interval).
TrackSleep ==
    /\ t_pc = "sleep"
    /\ t_slept' = t_args.tracking_interval
    /\ t_pc' = "query"
    /\ UNCHANGED <<tenv, ttask, t_local, thist, treader, twait, tctor,
                   t_args, n_sent, vvars, qvars, xvars>>

\* A slip: no try block, so a failed query ends the thread.
TrackQuery_Aborts ==
    /\ t_pc = "query"
    /\ t_queries' = Min(t_queries + 1, MaxQueries)
    /\ IF t_up
       THEN /\ t_responses' = Min(t_responses + 1, MaxQueries)
            /\ t_local' = GetCustomTaskResultModel(t_platform, t_responses')
            /\ t_pc' = "lock"
            /\ UNCHANGED t_fails
       ELSE /\ t_fails' = Min(t_fails + 1, MaxFails)
            /\ t_pc' = "done"
            /\ UNCHANGED <<t_responses, t_local>>
    /\ UNCHANGED <<tenv, ttask, t_initial, treader, twait, tctor, tnote,
                   vvars, qvars, xvars>>

\* Lines 162-163, 166-167: query_task returns a status or raises; the
\* exception is logged.
TrackQuery ==
    /\ t_pc = "query"
    /\ t_queries' = Min(t_queries + 1, MaxQueries)
    /\ IF t_up
       THEN /\ t_responses' = Min(t_responses + 1, MaxQueries)
            /\ t_local' = GetCustomTaskResultModel(t_platform, t_responses')
            /\ t_pc' = "lock"
            /\ UNCHANGED t_fails
       ELSE /\ t_fails' = Min(t_fails + 1, MaxFails)
            /\ t_pc' = "finally"
            /\ UNCHANGED <<t_responses, t_local>>
    /\ UNCHANGED <<tenv, ttask, t_initial, treader, twait, tctor, tnote,
                   vvars, qvars, xvars>>

\* Line 164: with self._rlock, entered.
TrackLock ==
    /\ t_pc = "lock"
    /\ t_rlock = None
    /\ t_rlock' = "tracker"
    /\ t_pc' = "store"
    /\ UNCHANGED <<tenv, t_status, t_local, thist, treader, twait, tctor, tnote,
                   vvars, qvars, xvars>>

\* A slip: the response is dropped, self._status is not assigned.
TrackStore_NotAssigned ==
    /\ t_pc = "store"
    /\ t_rlock' = None
    /\ t_fails' = 0
    /\ t_pc' = "finally"
    /\ UNCHANGED <<tenv, t_status, t_local, t_responses, t_queries, t_initial,
                   treader, twait, tctor, tnote,
                   vvars, qvars, xvars>>

\* Line 165: self._status = status, and the lock is released.
TrackStore ==
    /\ t_pc = "store"
    /\ t_status' = t_local
    /\ t_rlock' = None
    /\ t_fails' = 0
    /\ t_pc' = "finally"
    /\ UNCHANGED <<tenv, t_local, t_responses, t_queries, t_initial,
                   treader, twait, tctor, tnote,
                   vvars, qvars, xvars>>

\* Lines 168-170: the finally clause, then back to the loop condition.
TrackFinally ==
    /\ t_pc = "finally"
    /\ t_pc' = "check"
    /\ UNCHANGED <<tenv, ttask, t_local, thist, treader, twait, tctor, tnote,
                   vvars, qvars, xvars>>

\* A slip: the flag notify_upon_termination is not consulted.
TrackExit_IgnoresFlag ==
    /\ t_pc = "exit"
    /\ n_sent' = IF k_args.lark_client
                 THEN n_sent \o Messages("termination", t_status.State,
                                         t_args.group_chat_ids)
                 ELSE n_sent
    /\ t_pc' = "done"
    /\ UNCHANGED <<tenv, ttask, t_local, thist, treader, twait, tctor,
                   t_args, t_slept, vvars, qvars, xvars>>

\* Lines 172-176: the loop is left, the termination notifications are sent
\* and _track returns.
TrackExit ==
    /\ t_pc = "exit"
    /\ n_sent' = IF k_args.lark_client /\ t_args.send_notification
                 THEN n_sent \o Messages("termination", t_status.State,
                                         t_args.group_chat_ids)
                 ELSE n_sent
    /\ t_pc' = "done"
    /\ UNCHANGED <<tenv, ttask, t_local, thist, treader, twait, tctor,
                   t_args, t_slept, vvars, qvars, xvars>>

\* Lines 125-127: a caller reads task.state; no lock is taken.
ReadState ==
    /\ r_pc = "start"
    /\ r_state' = [State |-> t_status.State, Resp |-> t_status.Resp]
    /\ r_pc' = "read_state"
    /\ UNCHANGED <<tenv, ttask, tthread, thist, r_finish_time, twait, tctor, tnote,
                   vvars, qvars, xvars>>

\* Lines 145-147: the caller then reads task.finish_time; no lock is taken.
ReadFinishTime ==
    /\ r_pc = "read_state"
    /\ r_finish_time' = [FinishTime |-> t_status.FinishTime, Resp |-> t_status.Resp]
    /\ r_pc' = "done"
    /\ UNCHANGED <<tenv, ttask, tthread, thist, r_state, twait, tctor, tnote,
                   vvars, qvars, xvars>>

\* The steps of the tracker thread.
Track ==
    TrackCheck \/ TrackSleep \/ TrackQuery \/ TrackLock \/ TrackStore
        \/ TrackFinally \/ TrackExit

TNext ==
    \/ PlatformAdvance
    \/ ServiceFlips
    \/ TrackCheck
    \/ TrackSleep
    \/ TrackQuery
    \/ TrackLock
    \/ TrackStore
    \/ TrackFinally
    \/ TrackExit
    \/ ReadState
    \/ ReadFinishTime

SpecTrack == TInit /\ [][TNext]_vars

\* The tracker is a running thread: each of its steps is taken in the end.
LiveTrack == TInit /\ [][TNext]_vars /\ WF_vars(Track)

(***************************************************************************)
(* Vocabulary of the claims about the tracker.                             *)
(***************************************************************************)
\* The terminal set as the specification lists it.
TerminalSet ==
    {"Success", "SuccessHolding", "Failed", "FailedHolding",
     "Cancelled", "Killed", "Exception"}
CachedTerminal == t_status.State \in TerminalSet
\* The tracker thread took the step.
TrackerMoved == t_pc' # t_pc
\* The positions of the thread between two evaluations of the loop condition.
InTick == {"sleep", "query", "lock", "store"}

(***************************************************************************)
(* C7: terminal-state detection is stable.  Once the cached state is in    *)
(* the terminal set the tracker issues no further status query and the     *)
(* cached status never changes again; if the initial status is already     *)
(* terminal the tracker issues no query at all.                            *)
(***************************************************************************)
C7_TerminalStable ==
    /\ [](CachedTerminal => t_pc \notin InTick)
    /\ [](t_initial.State \in TerminalSet => (t_queries = 0 /\ t_status = t_initial))
    /\ [][CachedTerminal => (t_status' = t_status /\ t_queries' = t_queries)]_vars

\* The tracker stored SuccessHolding and ended; the platform has moved on to
\* Success since, and the cached status is still the one stored.
C7_Witness ==
    /\ t_pc = "done"
    /\ t_status.State = "SuccessHolding"
    /\ t_platform.State = "Success"
    /\ t_initial.State = "Queue"
    /\ t_queries > 1

(***************************************************************************)
(* C8: the tracker polls until a terminal state.  It never leaves the loop *)
(* while the cached state is non-terminal; and with the thread running, if *)
(* the platform reports a terminal state in the end and status queries     *)
(* succeed in the end, the thread stores a terminal state and exits.       *)
(***************************************************************************)
C8_PollsUntilTerminal ==
    /\ [](t_pc \in {"exit", "done"} => CachedTerminal)
    /\ (<>[](t_platform.State \in TerminalSet) /\ <>[]t_up)
          => <>(t_pc = "done" /\ CachedTerminal)

\* The thread ended after failed queries and several ticks, on a task that
\* was not terminal when the tracker started.
C8_Witness ==
    /\ t_pc = "done"
    /\ t_initial.State = "Queue"
    /\ t_status.State = "Killed"
    /\ t_queries = MaxQueries
    /\ ~ t_up

(***************************************************************************)
(* C9: a reader that reads several task properties (state, then            *)
(* finish_time) while the tracker is refreshing never observes fields that *)
(* come from two different status responses.                               *)
(***************************************************************************)
FromOneResponse == r_state.Resp = r_finish_time.Resp
\* The two fields read are at least those some single response holds.
LikeOneResponse ==
    \E s \in TaskStates :
        LET status == GetCustomTaskResultModel(PlatformTask(s), 0)
        IN /\ r_state.State = status.State
           /\ r_finish_time.FinishTime = status.FinishTime

C9_ConsistentSnapshot ==
    r_pc = "done" => (FromOneResponse \/ LikeOneResponse)

(***************************************************************************)
(* C10: a status query that fails inside the tracking loop does not abort  *)
(* the loop.  The failed tick leaves the cached status unchanged, and the  *)
(* thread goes through the finally clause and the loop condition to the    *)
(* next sleep and query, for any number of consecutive failures.           *)
(***************************************************************************)
C10_FailedQueryRetried ==
    [][/\ (t_pc = "query" /\ ~ t_up /\ TrackerMoved) =>
            (t_pc' = "finally" /\ t_status' = t_status)
       /\ (t_fails > 0 /\ t_pc \in {"finally", "check", "sleep", "query"}) =>
            t_status' = t_status
       /\ (t_fails > 0 /\ TrackerMoved) =>
            <<t_pc, t_pc'>> \in { <<"finally", "check">>, <<"check", "sleep">>,
                                  <<"sleep", "query">>, <<"query", "finally">>,
                                  <<"query", "lock">>, <<"lock", "store">>,
                                  <<"store", "finally">> }
      ]_vars

\* After MaxFails failed queries in a row the next query is about to be issued.
C10_Witness ==
    /\ t_pc = "query"
    /\ t_fails = MaxFails
    /\ t_status = t_initial
    /\ t_queries >= MaxFails

(***************************************************************************)
(* SpecWait: a coroutine that awaits VolcMLPlatformTask.finished()         *)
(* (task.py 178-180) while the tracker thread of the task runs.            *)
(***************************************************************************)
\* The task is constructed as in TInit; finished() is not called yet.
WInit ==
    /\ t_platform \in { PlatformTask(s) : s \in TaskStates }
    /\ t_up \in BOOLEAN
    /\ t_status = GetCustomTaskResultModel(t_platform, 0)
    /\ t_initial = t_status
    /\ t_rlock = None
    /\ t_pc = "check"
    /\ t_local = NoStatus
    /\ t_responses = 0
    /\ t_queries = 0
    /\ t_fails = 0
    /\ r_pc = "idle"
    /\ r_state = [State |-> None, Resp |-> 0]
    /\ r_finish_time = [FinishTime |-> None, Resp |-> 0]
    /\ w_pc = "start"
    /\ Constructed
    /\ VIdle
    /\ QIdle
    /\ XIdle

\* Line 178: a caller awaits task.finished(), at any moment of the tracking.
WaitCall ==
    /\ w_pc = "start"
    /\ w_pc' = "check"
    /\ UNCHANGED <<tenv, ttask, tthread, thist, treader, tctor, tnote,
                   vvars, qvars, xvars>>

\* A slip: the loop waits while the task is queued or running, and returns
\* for every other state.
WaitCheck_WhileRunning ==
    /\ w_pc = "check"
    /\ w_pc' = IF t_status.State \in {"Queue", "Running"} THEN "sleep" ELSE "done"
    /\ UNCHANGED <<tenv, ttask, tthread, thist, treader, tctor, tnote,
                   vvars, qvars, xvars>>

\* Line 179: the loop condition reads self.state; finished() returns when the
\* state is terminal.
WaitCheck ==
    /\ w_pc = "check"
    /\ w_pc' = IF t_status.State \notin terminal_task_states THEN "sleep" ELSE "done"
    /\ UNCHANGED <<tenv, ttask, tthread, thist, treader, tctor, tnote,
                   vvars, qvars, xvars>>

\* Line 180: await asyncio.sleep(1).
WaitSleep ==
    /\ w_pc = "sleep"
    /\ w_pc' = "check"
    /\ UNCHANGED <<tenv, ttask, tthread, thist, treader, tctor, tnote,
                   vvars, qvars, xvars>>

\* The steps of the coroutine once it is awaited.
Wait == WaitCheck \/ WaitSleep

WNext ==
    \/ PlatformAdvance
    \/ ServiceFlips
    \/ TrackCheck
    \/ TrackSleep
    \/ TrackQuery
    \/ TrackLock
    \/ TrackStore
    \/ TrackFinally
    \/ TrackExit
    \/ WaitCall
    \/ WaitCheck
    \/ WaitSleep

SpecWait == WInit /\ [][WNext]_vars

\* The tracker is a running thread and the event loop runs the awaited
\* coroutine: each of their steps is taken in the end.
LiveWait == WInit /\ [][WNext]_vars /\ WF_vars(Track) /\ WF_vars(Wait)

(***************************************************************************)
(* C11: finished() returns only when the cached task state is terminal,    *)
(* and it returns in the end once the tracker has stored a terminal state; *)
(* it issues no status query of its own and never modifies the cached      *)
(* status.                                                                 *)
(***************************************************************************)
WaiterMoved == w_pc' # w_pc
Awaited == w_pc \in {"check", "sleep"}

C11_FinishedWaits ==
    /\ [][(WaiterMoved /\ w_pc' = "done") => CachedTerminal]_vars
    /\ [](w_pc = "done" => CachedTerminal)
    /\ [][WaiterMoved =>
            /\ t_status' = t_status
            /\ t_queries' = t_queries
            /\ t_responses' = t_responses]_vars
    /\ (CachedTerminal /\ Awaited) ~> (w_pc = "done")

\* finished() was awaited on a running task, slept while the tracker polled,
\* and returned after the tracker had stored the terminal state.
C11_Witness ==
    /\ w_pc = "done"
    /\ t_initial.State = "Running"
    /\ t_status.State = "FailedHolding"
    /\ t_queries > 1
    /\ t_pc = "done"

(***************************************************************************)
(* SpecTask: VolcMLPlatformTask.__init__ (task.py 32-88) with arguments    *)
(* of the caller's choice, followed by the tracker thread it starts.       *)
(***************************************************************************)
\* How far the supplied intervals lie from the two limits.
MaxOff == 1
\* Longest group_chat_ids list.
MaxChats == 2

IntervalVals ==
    {0, DEFAULT_TRACKING_INTERVAL}
    \cup { MIN_TRACKING_INTERVAL - k : k \in 0..MaxOff }
    \cup { MIN_TRACKING_INTERVAL + k : k \in 0..MaxOff }
    \cup { MAX_TRACKING_INTERVAL - k : k \in 0..MaxOff }
    \cup { MAX_TRACKING_INTERVAL + k : k \in 0..MaxOff }
IntervalArgs == { Number(v) : v \in IntervalVals } \cup {NotANumber}
ChatArgs ==
    {NotAList}
    \cup { List(l) : l \in SeqsUpTo({ChatId("c1"), ChatId("c2"), NotAString}, MaxChats) }
\* One dimension is varied at a time: every interval, every combination of
\* the chat client and the two notification flags, every chat list.
TaskArgSet ==
    { TaskArgs(i, TRUE, TRUE, TRUE, List(<<ChatId("c1")>>)) : i \in IntervalArgs }
    \cup { TaskArgs(Number(DEFAULT_TRACKING_INTERVAL), f[1], f[2], f[3],
                    List(<<ChatId("c1"), NotAString>>)) :
             f \in BOOLEAN \X BOOLEAN \X BOOLEAN }
    \cup { TaskArgs(Number(DEFAULT_TRACKING_INTERVAL), TRUE, TRUE, TRUE, c) :
             c \in ChatArgs }

\* No task on the platform yet.
NoTask == [State |-> None, FinishTime |-> ""]

TaskInit ==
    /\ k_pc = "create"
    /\ k_args \in TaskArgSet
    /\ k_exc = None
    /\ k_warnings = {}
    /\ k_calls = <<>>
    /\ t_platform = NoTask
    /\ t_up \in BOOLEAN
    /\ t_status = NoStatus
    /\ t_initial = NoStatus
    /\ t_rlock = None
    /\ t_pc = "unstarted"
    /\ t_local = NoStatus
    /\ t_responses = 0
    /\ t_queries = 0
    /\ t_fails = 0
    /\ t_args = NoTrackArgs
    /\ t_slept = 0
    /\ n_sent = <<>>
    /\ r_pc = "idle"
    /\ r_state = [State |-> None, Resp |-> 0]
    /\ r_finish_time = [FinishTime |-> None, Resp |-> 0]
    /\ w_pc = "idle"
    /\ VIdle
    /\ QIdle
    /\ XIdle

\* Lines 57-59: a group_chat_ids that is no list is replaced by [].
group_chats(arg) == IF arg.list THEN arg.items ELSE <<>>

\* A slip: the limits are excluded from the permitted range.
checked_interval_Strict(arg) ==
    IF \/ ~ arg.num
       \/ ~ (MIN_TRACKING_INTERVAL < arg.val /\ arg.val < MAX_TRACKING_INTERVAL)
    THEN DEFAULT_TRACKING_INTERVAL
    ELSE arg.val

\* A slip: an interval outside the range is moved to the nearest limit.
checked_interval_Clamped(arg) ==
    IF ~ arg.num THEN DEFAULT_TRACKING_INTERVAL
    ELSE IF arg.val < MIN_TRACKING_INTERVAL THEN MIN_TRACKING_INTERVAL
    ELSE IF arg.val > MAX_TRACKING_INTERVAL THEN MAX_TRACKING_INTERVAL
    ELSE arg.val

\* Lines 69-79: the interval handed to the thread.
checked_interval(arg) ==
    IF \/ ~ arg.num
       \/ ~ (MIN_TRACKING_INTERVAL <= arg.val /\ arg.val <= MAX_TRACKING_INTERVAL)
    THEN DEFAULT_TRACKING_INTERVAL
    ELSE arg.val

\* Lines 57-66 and 90-107: the chat list is inspected, CreateCustomTask is
\* called, and the creation notifications are sent.
CtorCreate ==
    /\ k_pc = "create"
    /\ k_warnings' = IF k_args.group_chat_ids.list THEN k_warnings
                     ELSE k_warnings \cup {"group_chat_ids"}
    /\ k_calls' = Append(k_calls, "CreateCustomTask")
    /\ IF t_up
       THEN /\ t_platform' = PlatformTask("Queue")
            /\ n_sent' = IF k_args.lark_client /\ k_args.notify_upon_creation
                         THEN n_sent \o Messages("creation", None,
                                                 group_chats(k_args.group_chat_ids))
                         ELSE n_sent
            /\ k_pc' = "query"
            /\ UNCHANGED k_exc
       ELSE /\ k_pc' = "raised"
            /\ k_exc' = "CallVolcAPIError"
            /\ UNCHANGED <<t_platform, n_sent>>
    /\ UNCHANGED <<t_up, ttask, tthread, thist, treader, twait, k_args,
                   t_args, t_slept, vvars, qvars, xvars>>

\* A slip: a failed initial query is tolerated and __init__ goes on without
\* a status.
CtorQuery_Tolerant ==
    /\ k_pc = "query"
    /\ k_calls' = Append(k_calls, "GetCustomTask")
    /\ IF t_up
       THEN /\ t_status' = GetCustomTaskResultModel(t_platform, 0)
            /\ t_initial' = t_status'
       ELSE UNCHANGED <<t_status, t_initial>>
    /\ k_pc' = "interval"
    /\ UNCHANGED <<tenv, t_rlock, tthread, t_responses, t_queries, t_fails,
                   treader, twait, k_args, k_exc, k_warnings, tnote, vvars, qvars,
                   xvars>>

\* Line 67: the initial status is queried and stored.
CtorQuery ==
    /\ k_pc = "query"
    /\ k_calls' = Append(k_calls, "GetCustomTask")
    /\ IF t_up
       THEN /\ t_status' = GetCustomTaskResultModel(t_platform, 0)
            /\ t_initial' = t_status'
            /\ k_pc' = "interval"
            /\ UNCHANGED k_exc
       ELSE /\ k_pc' = "raised"
            /\ k_exc' = "CallVolcAPIError"
            /\ UNCHANGED <<t_status, t_initial>>
    /\ UNCHANGED <<tenv, t_rlock, tthread, t_responses, t_queries, t_fails,
                   treader, twait, k_args, k_warnings, tnote, vvars, qvars, xvars>>

\* Lines 69-88: the interval is checked, the lock is made and the thread is
\* started with its arguments.
CtorStart ==
    /\ k_pc = "interval"
    /\ k_warnings' =
         IF checked_interval(k_args.tracking_interval) = k_args.tracking_interval.val
            /\ k_args.tracking_interval.num
         THEN k_warnings
         ELSE k_warnings \cup {"tracking_interval"}
    /\ t_args' = TrackArgs(checked_interval(k_args.tracking_interval),
                           k_args.notify_upon_termination,
                           group_chats(k_args.group_chat_ids))
    /\ t_rlock' = None
    /\ t_pc' = "check"
    /\ k_pc' = "done"
    /\ UNCHANGED <<tenv, t_status, t_local, thist, treader, twait,
                   k_args, k_exc, k_calls, t_slept, n_sent, vvars, qvars, xvars>>

KNext ==
    \/ PlatformAdvance
    \/ ServiceFlips
    \/ CtorCreate
    \/ CtorQuery
    \/ CtorStart
    \/ TrackCheck
    \/ TrackSleep
    \/ TrackQuery
    \/ TrackLock
    \/ TrackStore
    \/ TrackFinally
    \/ TrackExit

SpecTask == TaskInit /\ [][KNext]_vars

(***************************************************************************)
(* Vocabulary of the claims about the tracking interval.                   *)
(***************************************************************************)
InRange(v) == MIN_TRACKING_INTERVAL <= v /\ v <= MAX_TRACKING_INTERVAL
\* The limit of the range nearest to v.
Clamped(v) ==
    IF v < MIN_TRACKING_INTERVAL THEN MIN_TRACKING_INTERVAL
    ELSE IF v > MAX_TRACKING_INTERVAL THEN MAX_TRACKING_INTERVAL
    ELSE v
Supplied == k_args.tracking_interval
\* The tracker has slept at least once; t_slept is the duration.
HasSlept == t_slept # 0

(***************************************************************************)
(* C12 as stated: the interval the tracker sleeps between status queries   *)
(* is always within [5, 300] seconds; a supplied interval inside the range *)
(* is used unchanged, and a supplied interval outside the range is clamped *)
(* into the range, that is, moved to the limit it exceeds.                 *)
(***************************************************************************)
C12_Original ==
    (HasSlept /\ Supplied.num) =>
        /\ InRange(t_slept)
        /\ t_slept = Clamped(Supplied.val)

(***************************************************************************)
(* C12: the interval the tracker sleeps between status queries is always   *)
(* within [5, 300] seconds; a supplied interval inside the range is used   *)
(* unchanged, and a supplied number outside the range is replaced by the   *)
(* default of 10 seconds.                                                  *)
(***************************************************************************)
C12_IntervalInRange ==
    HasSlept =>
        /\ InRange(t_slept)
        /\ t_slept = t_args.tracking_interval
        /\ (Supplied.num /\ InRange(Supplied.val)) => t_slept = Supplied.val
        /\ (Supplied.num /\ ~ InRange(Supplied.val)) =>
               t_slept = DEFAULT_TRACKING_INTERVAL

\* The task was constructed with an interval one second above the range and
\* its tracker has slept the default interval between two queries.
C12_Witness ==
    /\ Supplied = Number(MAX_TRACKING_INTERVAL + 1)
    /\ t_slept = DEFAULT_TRACKING_INTERVAL
    /\ t_queries > 1
    /\ t_pc = "query"

(***************************************************************************)
(* C20: a supplied tracking_interval that is not a number or lies outside  *)
(* [5, 300] is replaced by the default value of 10 seconds, and a warning  *)
(* is logged; the task is still created and tracked.                       *)
(***************************************************************************)
InvalidInterval == ~ Supplied.num \/ ~ InRange(Supplied.val)

C20_DefaultInterval ==
    /\ (k_pc = "done" /\ InvalidInterval) =>
          /\ t_args.tracking_interval = DEFAULT_TRACKING_INTERVAL
          /\ "tracking_interval" \in k_warnings
          /\ "CreateCustomTask" = k_calls[1]
          /\ t_platform.State # None
          /\ t_pc # "unstarted"
    /\ (HasSlept /\ InvalidInterval) => t_slept = DEFAULT_TRACKING_INTERVAL
    /\ "tracking_interval" \in k_warnings => InvalidInterval
    /\ k_pc = "raised" => k_exc = "CallVolcAPIError"

\* A task constructed with an interval that is no number was created, its
\* tracker slept the default interval and ended on a terminal state.
C20_Witness ==
    /\ Supplied = NotANumber
    /\ "tracking_interval" \in k_warnings
    /\ t_slept = DEFAULT_TRACKING_INTERVAL
    /\ t_pc = "done"
    /\ t_status.State = "Success"

(***************************************************************************)
(* C19: a termination notification is sent only after the tracker has      *)
(* observed a terminal state and left the polling loop, it reports that    *)
(* terminal state, and it is sent exactly once per string chat ID in       *)
(* group_chat_ids (once per string element of the list, in order); it is   *)
(* sent only when a chat client is configured and notify_upon_termination  *)
(* is set, and the creation notification (if any) always precedes it.      *)
(***************************************************************************)
IsTermination(m) == m.kind = "termination"
Terminations == SelectSeq(n_sent, IsTermination)
\* The string elements of a chat list, in order.
RECURSIVE StringIds(_)
StringIds(chats) ==
    IF chats = <<>> THEN <<>>
    ELSE (IF Head(chats).str THEN <<Head(chats).id>> ELSE <<>>)
         \o StringIds(Tail(chats))
ChatsNotified == [i \in DOMAIN Terminations |-> Terminations[i].chat]
TerminationWanted == k_args.lark_client /\ k_args.notify_upon_termination

RegisteredActions ==
    {"CreateCustomTask", "GetCustomTask", "ListCustomTasks", "StopCustomTask",
     "GetContainerLogs", "DeleteCustomTask", "GetCustomTaskInstances",
     "GetResourceQueue", "ListResourceQueues", "GetMetrics", "ListImageRepos",
     "GetImageRepo", "ListMountPoints", "ListFlavorsV2",
     "GetUserVepfsFilesetPermission"}

\* What the network gives back to one request.  The request raises (the form
\* is not serialisable, signing fails, the connection fails or times out), or
\* a response arrives: its status code, whether its body decodes as JSON,
\* what ResponseMetadata holds and what Result holds.
\*   meta: "absent"   no ResponseMetadata
\*         "noerror"  ResponseMetadata without Error
\*         "nocode"   an Error without Code
\*         "code"     an Error with the code `code`
\*   result: "absent", or the kind of the Result object
Failure == [raised |-> TRUE, status |-> 0, json |-> FALSE,
            meta |-> "absent", code |-> "", result |-> "absent"]
Response(status, json, meta, code, result) ==
    [raised |-> FALSE, status |-> status, json |-> json,
     meta |-> meta, code |-> code, result |-> result]

OK == 200
StatusCodes == {OK, 400, 404, 500}
ProviderCodes ==
    {"InvalidParameter", "ResourceNotFound", "InternalError",
     "UnauthorizedOperation", "CustomTaskNotInTerminalState"}
\* Result objects: a usable one, a queue without a role, a stopped queue.
ResultKinds == {"ok", "norole", "stopped"}
Nets ==
    {Failure}
    \cup { Response(st, FALSE, "absent", "", "absent") : st \in StatusCodes }
    \cup { Response(st, TRUE, m, "", r) :
             st \in StatusCodes, m \in {"absent", "noerror", "nocode"},
             r \in {"absent", "ok"} }
    \cup { Response(st, TRUE, "code", c, r) :
             st \in StatusCodes, c \in ProviderCodes, r \in {"absent", "ok"} }
    \cup { Response(OK, TRUE, "absent", "", r) : r \in ResultKinds }

\* raise CallVolcAPIError(api, error): the exception with its api and code.
ApiError(api, code) ==
    [exc |-> "CallVolcAPIError", val |-> None, api |-> api, code |-> code]

\* A slip: the Result is read without a test for its presence.
call_api_NoResultTest(api, net) ==
    IF api \notin RegisteredActions THEN ApiError(api, "Other")
    ELSE IF net.raised THEN ApiError(api, "Other")
    ELSE IF ~ net.json THEN ApiError(api, "Other")
    ELSE IF net.status # OK
         THEN ApiError(api, IF net.meta = "code" THEN net.code ELSE "")
    ELSE IF net.result = "absent" THEN Raise("KeyError")
    ELSE Return(net.result)

\* call_api: the Result of the response, or CallVolcAPIError.
call_api(api, net) ==
    \* line 88-89 and 124-127
    IF api \notin RegisteredActions THEN ApiError(api, "Other")
    \* lines 91-107 and 124-127
    ELSE IF net.raised THEN ApiError(api, "Other")
    \* line 108 and 124-127
    ELSE IF ~ net.json THEN ApiError(api, "Other")
    \* lines 109-113: error.get('Code', '') of CallVolcAPIError.__init__
    ELSE IF net.status # OK
         THEN ApiError(api, IF net.meta = "code" THEN net.code ELSE "")
    \* lines 114-121
    ELSE IF net.result = "absent" THEN ApiError(api, "MissingResult")
    \* line 129
    ELSE Return(net.result)

\* A slip: only ResourceNotFound is taken for an unknown ID.
raise_for_code_OnlyNotFound(e, kind) ==
    IF e.exc = "CallVolcAPIError" /\ e.code = "ResourceNotFound"
    THEN Raise(kind)
    ELSE e

\* The except clause of the three lookups (lines 167-171, 201-205, 211-215):
\* a user-facing error for the two codes of an unknown ID, else the same
\* exception again.
raise_for_code(e, kind) ==
    IF e.exc = "CallVolcAPIError" /\ e.code \in {"InvalidParameter", "ResourceNotFound"}
    THEN Raise(kind)
    ELSE e

\* get_resource_queue (lines 159-177) on top of call_api; the checks of the
\* Result are those of the operator get_resource_queue above.
get_resource_queue_call(qid_is_str, net) ==
    IF ~ qid_is_str THEN Raise("TypeError")
    ELSE LET r == call_api("GetResourceQueue", net)
         IN IF r.exc # None THEN raise_for_code(r, "ValueError")
            ELSE get_resource_queue(
                   [q \in {DefaultQid} |->
                      Answer("", IF r.val = "norole" THEN "" ELSE "Admin",
                             IF r.val = "stopped" THEN "Stopped" ELSE "Running",
                             RoomyPool("za"))],
                   DefaultQid)

\* query_task (lines 192-205)
query_task(task_id_is_str, net) ==
    IF ~ task_id_is_str THEN Raise("TypeError")
    ELSE LET r == call_api("GetCustomTask", net)
         IN IF r.exc # None THEN raise_for_code(r, "InvalidTaskIdError")
            ELSE Return(r.val)

\* get_image_repo (lines 207-215)
get_image_repo(net) ==
    LET r == call_api("GetImageRepo", net)
    IN IF r.exc # None THEN raise_for_code(r, "ValueError")
       ELSE Return(r.val)

\* The API each lookup calls.
ApiOf ==
    [get_resource_queue |-> "GetResourceQueue",
     query_task |-> "GetCustomTask",
     get_image_repo |-> "GetImageRepo"]
Lookups == DOMAIN ApiOf

SInit ==
    /\ s_pc = "call"
    /\ s_fn \in {"call_api"} \cup Lookups
    /\ s_api \in IF s_fn = "call_api"
                 THEN {"GetCustomTask", "StopCustomTask", "NoSuchAction"}
                 ELSE {ApiOf[s_fn]}
    /\ s_id_is_str \in IF s_fn \in {"get_resource_queue", "query_task"}
                       THEN BOOLEAN ELSE {TRUE}
    /\ s_net \in Nets
    /\ s_out = Return(None)
    /\ VIdle
    /\ QIdle
    /\ TIdle
    /\ PIdle
    /\ UIdle
    /\ GIdle

sargs == <<s_fn, s_api, s_id_is_str, s_net, vvars, qvars, tvars, pvars, uvars, gvars>>

CallApi ==
    /\ s_pc = "call"
    /\ s_fn = "call_api"
    /\ s_out' = call_api(s_api, s_net)
    /\ s_pc' = "done"
    /\ UNCHANGED sargs

GetResourceQueue ==
    /\ s_pc = "call"
    /\ s_fn = "get_resource_queue"
    /\ s_out' = get_resource_queue_call(s_id_is_str, s_net)
    /\ s_pc' = "done"
    /\ UNCHANGED sargs

QueryTask ==
    /\ s_pc = "call"
    /\ s_fn = "query_task"
    /\ s_out' = query_task(s_id_is_str, s_net)
    /\ s_pc' = "done"
    /\ UNCHANGED sargs

GetImageRepo ==
    /\ s_pc = "call"
    /\ s_fn = "get_image_repo"
    /\ s_out' = get_image_repo(s_net)
    /\ s_pc' = "done"
    /\ UNCHANGED sargs

SNext == CallApi \/ GetResourceQueue \/ QueryTask \/ GetImageRepo

SpecService == SInit /\ [][SNext]_vars

(***************************************************************************)
(* C13: every failure of a remote call made through call_api is normalized *)
(* into CallVolcAPIError carrying the API name, a code and a message: a    *)
(* non-200 response yields the provider's error code, a 200 response       *)
(* without a Result field yields code MissingResult, and any other failure *)
(* (unregistered API, transport or decoding error) yields code Other;      *)
(* call_api never raises any other exception type and otherwise returns    *)
(* the Result field.                                                       *)
(***************************************************************************)
CallApiDone == s_pc = "done" /\ s_fn = "call_api"
\* The request was not sent or no response could be decoded.
OtherFailure == s_api \notin RegisteredActions \/ s_net.raised \/ ~ s_net.json
Non200 == ~ OtherFailure /\ s_net.status # 200
MissingResult == ~ OtherFailure /\ s_net.status = 200 /\ s_net.result = "absent"
\* The code the provider put into the response ('' when it put none).
ProviderCode == IF s_net.meta = "code" THEN s_net.code ELSE ""

LookupDone == s_pc = "done" /\ s_fn \in Lookups
\* What call_api gave the lookup; the call is made for a string ID only.
Remote == call_api(s_api, s_net)
RemoteFailure == s_id_is_str /\ Remote.exc # None
UserError ==
    [get_resource_queue |-> "ValueError",
     query_task |-> "InvalidTaskIdError",
     get_image_repo |-> "ValueError"]

C14_LookupsDecideOnCode ==
    (LookupDone /\ RemoteFailure) =>
        IF Remote.code \in {"InvalidParameter", "ResourceNotFound"}
        THEN s_out.exc = UserError[s_fn]
        ELSE /\ s_out.exc = "CallVolcAPIError"
             /\ s_out.api = s_api
             /\ s_out.code = Remote.code

\* The platform answers 404 with InvalidParameter to a task query.
C14_Witness ==
    /\ LookupDone
    /\ s_fn = "query_task"
    /\ s_net = Response(404, TRUE, "code", "InvalidParameter", "absent")
    /\ s_out = Raise("InvalidTaskIdError")

(***************************************************************************)
(* SpecStop: one call of VolcMLPlatformClient.stop_task or delete_task     *)
(* (client.py 323-388).                                                    *)
(***************************************************************************)
\* The request each method sends (lines 349 and 377).
RequestApi == [stop_task |-> "StopCustomTask", delete_task |-> "DeleteCustomTask"]

\* A slip: delete_task decides on the same code as stop_task.
RefusalCodes_SameAsStop ==
    [stop_task |-> {"UnauthorizedOperation"},
     delete_task |-> {"UnauthorizedOperation"}]

\* The codes of a refusal that is logged and answered with False (lines 353
\* and 381).
RefusalCodes ==
    [stop_task |-> {"UnauthorizedOperation"},
     delete_task |-> {"UnauthorizedOperation", "CustomTaskNotInTerminalState"}]

\* The states stop_task warns about (lines 341-343); delete_task has no such
\* test.
WarnedStates ==
    [stop_task |-> {"Success", "Failed", "Cancelled", "Killed", "Exception"},
     delete_task |-> {}]

\* No status (the preliminary query has not returned one).
NoTaskStatus == [CreatorIsMe |-> TRUE, State |-> None]

PInit ==
    /\ p_pc = "inspect"
    /\ p_op \in DOMAIN RequestApi
    /\ p_id_is_str \in BOOLEAN
    /\ p_qnet = Failure
    /\ p_status = NoTaskStatus
    /\ p_rnet = Failure
    /\ p_calls = <<>>
    /\ p_log = <<>>
    /\ p_out = Return(None)
    /\ VIdle
    /\ QIdle
    /\ TIdle
    /\ SIdle
    /\ UIdle
    /\ GIdle

pframe == <<p_op, p_id_is_str, vvars, qvars, tvars, svars, uvars, gvars>>

\* A slip: an invalid task ID is logged and the method goes on to the request.
InspectTask_GoesOn(op) ==
    /\ p_pc = "inspect"
    /\ p_op = op
    /\ \E net \in Nets, mine \in BOOLEAN, state \in TaskStates :
        LET q == query_task(p_id_is_str, net)
        IN /\ p_qnet' = net
           /\ p_calls' = IF p_id_is_str THEN Append(p_calls, "GetCustomTask")
                         ELSE p_calls
           /\ IF q.exc \notin {None, "InvalidTaskIdError"}
              THEN /\ p_pc' = "raised"
                   /\ p_out' = q
                   /\ UNCHANGED <<p_status, p_log>>
              ELSE /\ p_status' = [CreatorIsMe |-> mine, State |-> state]
                   /\ p_log' = p_log \o <<"error">>
                   /\ p_pc' = "request"
                   /\ UNCHANGED p_out
    /\ UNCHANGED <<p_rnet, pframe>>

\* Lines 332-344 and 364-372: the preliminary query.  An invalid task ID is
\* logged and answered with False, any other exception leaves the method;
\* a foreign task and (stop_task) an ended task are warned about.
InspectTask(op) ==
    /\ p_pc = "inspect"
    /\ p_op = op
    /\ \E net \in Nets, mine \in BOOLEAN, state \in TaskStates :
        LET q == query_task(p_id_is_str, net)
        IN /\ p_qnet' = net
           /\ p_calls' = IF p_id_is_str THEN Append(p_calls, "GetCustomTask")
                         ELSE p_calls
           /\ IF q.exc = "InvalidTaskIdError"
              THEN /\ p_log' = p_log \o <<"error">>
                   /\ p_pc' = "returned"
                   /\ p_out' = Return(FALSE)
                   /\ UNCHANGED p_status
              ELSE IF q.exc # None
              THEN /\ p_pc' = "raised"
                   /\ p_out' = q
                   /\ UNCHANGED <<p_status, p_log>>
              ELSE /\ p_status' = [CreatorIsMe |-> mine, State |-> state]
                   /\ p_log' = p_log
                        \o (IF ~ mine THEN <<"warning: other user">> ELSE <<>>)
                        \o (IF state \in WarnedStates[op]
                            THEN <<"warning: state">> ELSE <<>>)
                   /\ p_pc' = "request"
                   /\ UNCHANGED p_out
    /\ UNCHANGED <<p_rnet, pframe>>

\* Lines 346-360 and 374-388: the request.  It is accepted (True), refused
\* with a code of RefusalCodes (logged, False), or the exception is re-raised.
SendRequest(op) ==
    /\ p_pc = "request"
    /\ p_op = op
    /\ \E net \in Nets :
        LET r == call_api(RequestApi[op], net)
        IN /\ p_rnet' = net
           /\ p_calls' = Append(p_calls, RequestApi[op])
           /\ IF r.exc = None
              THEN /\ p_log' = Append(p_log, "success")
                   /\ p_pc' = "returned"
                   /\ p_out' = Return(TRUE)
              ELSE IF r.code \in RefusalCodes[op]
              THEN /\ p_log' = Append(p_log, "error")
                   /\ p_pc' = "returned"
                   /\ p_out' = Return(FALSE)
              ELSE /\ p_pc' = "raised"
                   /\ p_out' = r
                   /\ UNCHANGED p_log
    /\ UNCHANGED <<p_qnet, p_status, pframe>>

StopInspect == InspectTask("stop_task")
StopRequest == SendRequest("stop_task")
DeleteInspect == InspectTask("delete_task")
DeleteRequest == SendRequest("delete_task")

PNext == StopInspect \/ StopRequest \/ DeleteInspect \/ DeleteRequest

SpecStop == PInit /\ [][PNext]_vars

(***************************************************************************)
(* Vocabulary of the claims about stop_task and delete_task.               *)
(***************************************************************************)
PFinished == p_pc \in {"returned", "raised"}
\* The preliminary query reported the task ID as invalid: a decoded non-200
\* response that carries one of the two codes of an unknown ID.
ReportedInvalid ==
    /\ p_id_is_str /\ ~ p_qnet.raised /\ p_qnet.json /\ p_qnet.status # 200
    /\ p_qnet.meta = "code"
    /\ p_qnet.code \in {"InvalidParameter", "ResourceNotFound"}
RequestSent == \E i \in DOMAIN p_calls : p_calls[i] = RequestApi[p_op]
\* The platform accepted the request: a 200 response with a Result.
Accepted ==
    /\ RequestSent
    /\ ~ p_rnet.raised /\ p_rnet.json /\ p_rnet.status = 200
    /\ p_rnet.result # "absent"
\* The platform refused the request with the code p_rnet.code.
RefusedWithCode ==
    /\ RequestSent
    /\ ~ p_rnet.raised /\ p_rnet.json /\ p_rnet.status # 200
    /\ p_rnet.meta = "code"

(***************************************************************************)
(* C16: stop_task and delete_task return a boolean denoting whether the    *)
(* request was sent successfully: when the preliminary task query reports  *)
(* the task ID as invalid they return False and no StopCustomTask /        *)
(* DeleteCustomTask request is sent; they return True only after the stop  *)
(* / delete request has been issued and accepted.                          *)
(***************************************************************************)
C16_BooleanOutcome ==
    /\ p_pc = "returned" => p_out.val \in BOOLEAN
    /\ (p_pc # "inspect" /\ ReportedInvalid) =>
          /\ p_pc = "returned"
          /\ p_out = Return(FALSE)
          /\ ~ RequestSent
          /\ p_calls = <<"GetCustomTask">>
    /\ (p_pc = "returned" /\ p_out.val = TRUE) =>
          /\ Accepted
          /\ p_calls = <<"GetCustomTask", RequestApi[p_op]>>
    /\ (PFinished /\ Accepted) => p_out = Return(TRUE)

\* delete_task got ResourceNotFound from the preliminary query.
C16_Witness ==
    /\ p_op = "delete_task"
    /\ p_pc = "returned"
    /\ p_qnet = Response(404, TRUE, "code", "ResourceNotFound", "absent")
    /\ p_out = Return(FALSE)
    /\ p_calls = <<"GetCustomTask">>

(***************************************************************************)
(* C17: when the stop / delete request itself is refused, the outcome      *)
(* depends on the provider code: stop_task returns False for               *)
(* UnauthorizedOperation, delete_task returns False for                    *)
(* UnauthorizedOperation or CustomTaskNotInTerminalState, and a refusal    *)
(* with any other code is re-raised as CallVolcAPIError; a task owned by   *)
(* another user or already in a terminal state only produces a warning     *)
(* and the request is still sent.                                          *)
(***************************************************************************)
FalseCodes ==
    IF p_op = "stop_task" THEN {"UnauthorizedOperation"}
    ELSE {"UnauthorizedOperation", "CustomTaskNotInTerminalState"}
ForeignOrEnded == ~ p_status.CreatorIsMe \/ p_status.State \in TerminalSet
Warnings == {"warning: other user", "warning: state"}

HandleArgs == {"absent", "False", "True"}

\* A slip: only ValueError is suppressed.
handle_exceptions_OnlyValueError(handle, outcome) ==
    IF handle = "True" /\ outcome.exc = "ValueError" THEN Return(None) ELSE outcome

\* The decorator (lines 31-43): what the wrapper gives for what func gave.
handle_exceptions(handle, outcome) ==
    IF handle = "True" /\ outcome.exc # None THEN Return(None) ELSE outcome

\* A task name: whether it is a string, its length, and whether all its
\* characters are of the class of line 68.
Names ==
    [str : BOOLEAN, len : {0, 1, 200, 201}, chars_ok : BOOLEAN]
\* _validate_task_name (lines 146-153)
validate_task_name(name) ==
    IF ~ name.str THEN Raise("TypeError")
    ELSE IF name.chars_ok /\ 1 <= name.len /\ name.len <= 200 THEN Return(None)
    ELSE Raise("ValueError")

\* _validate_image (lines 137-144)
validate_image(are_strings, net, tag_in_tags) ==
    IF ~ are_strings THEN Raise("TypeError")
    ELSE LET model == get_image_repo(net)
         IN IF model.exc # None THEN model
            ELSE IF ~ tag_in_tags THEN Raise("ValueError")
            ELSE Return("url")

\* list_flavors (_service.py 179-190)
list_flavors(net) ==
    LET resp == call_api("ListFlavorsV2", net)
    IN IF resp.exc # None THEN resp ELSE Return(FlavorsByZone)

\* The platform's queues during one submission: the default queue and the
\* backups answer independently.
SubmitPlatforms ==
    { [q \in QueueIds |-> IF q = DefaultQid THEN a ELSE b] : a, b \in Answers }

\* vepfs_sub_paths: no list of strings, empty, or one path that is in the
\* read-write directories, in the read-only ones, or in neither.
SubPaths == {"not a list", "empty", "read-write", "read-only", "unknown"}
\* _build_vepfs_storages (lines 155-192) with get_vepfs_mount and
\* _get_vepfs_fileset (_service.py 131-157): `running` tells whether
\* ListMountPoints lists a running vePFS mount.
build_vepfs_storages(sub_paths, net, running, fileset_net) ==
    IF sub_paths = "not a list" THEN Raise("TypeError")
    ELSE IF sub_paths = "empty" THEN Return(<<>>)
    ELSE LET resp == call_api("ListMountPoints", net)
             fs == call_api("GetUserVepfsFilesetPermission", fileset_net)
         IN IF resp.exc # None THEN resp
            ELSE IF ~ running THEN Raise("ValueError")
            ELSE IF fs.exc # None THEN fs
            ELSE IF sub_paths = "unknown" THEN Raise("ValueError")
            ELSE Return(<<sub_paths>>)

\* The fields of the form the caller controls that TaskFormModel restricts
\* (data/_send.py 88-100).
Forms == [priority : {2, 4, 5, 6}, enable_range_type : {"Public", "Private", "Shared"}]
\* TaskFormModel(...) (lines 282-309)
TaskFormModel(form) ==
    IF form.priority \in {2, 4, 6} /\ form.enable_range_type \in {"Public", "Private"}
    THEN Return(form)
    ELSE Raise("ValidationError")

UInit ==
    /\ u_pc = "name"
    /\ u_lark_client \in BOOLEAN
    /\ u_handle \in HandleArgs
    /\ u_interval \in {Number(DEFAULT_TRACKING_INTERVAL),
                       Number(MAX_TRACKING_INTERVAL + 1), NotANumber}
    /\ u_steps = <<>>
    /\ u_q = None
    /\ u_error = Return(None)
    /\ u_out = Return(None)
    /\ k_pc = "idle"
    /\ k_args = SubmitArgs(u_interval)
    /\ k_exc = None
    /\ k_warnings = {}
    /\ k_calls = <<>>
    /\ t_platform = NoTask
    /\ t_up \in BOOLEAN
    /\ t_status = NoStatus
    /\ t_initial = NoStatus
    /\ t_rlock = None
    /\ t_pc = "unstarted"
    /\ t_local = NoStatus
    /\ t_responses = 0
    /\ t_queries = 0
    /\ t_fails = 0
    /\ t_args = NoTrackArgs
    /\ t_slept = 0
    /\ n_sent = <<>>
    /\ r_pc = "idle"
    /\ r_state = [State |-> None, Resp |-> 0]
    /\ r_finish_time = [FinishTime |-> None, Resp |-> 0]
    /\ w_pc = "idle"
    /\ VIdle
    /\ QIdle
    /\ SIdle
    /\ PIdle
    /\ GIdle

\* func left with `outcome` (an exception or the task): the wrapper's result.
Leave(outcome) ==
    LET result == handle_exceptions(u_handle, outcome)
    IN /\ u_error' = IF outcome.exc # None THEN outcome ELSE u_error
       /\ u_out' = result
       /\ u_pc' = IF result.exc = None THEN "returned" ELSE "raised"

\* One step of the body: an exception leaves the call, success is noted and
\* the body goes on.
Step(name, outcome, next) ==
    IF outcome.exc # None
    THEN Leave(outcome) /\ UNCHANGED u_steps
    ELSE /\ u_steps' = Append(u_steps, name)
         /\ u_pc' = next
         /\ UNCHANGED <<u_error, u_out>>

uframe == <<u_lark_client, u_handle, u_interval, tvars, vvars, qvars, svars, pvars, gvars>>

\* Line 267
SubmitName ==
    /\ u_pc = "name"
    /\ \E name \in Names : Step("name", validate_task_name(name), "image")
    /\ UNCHANGED <<u_q, uframe>>

\* Line 268
SubmitImage ==
    /\ u_pc = "image"
    /\ \E are_strings \in BOOLEAN, net \in Nets, tag_in_tags \in BOOLEAN :
          Step("image", validate_image(are_strings, net, tag_in_tags), "flavors")
    /\ UNCHANGED <<u_q, uframe>>

\* Line 269
SubmitFlavors ==
    /\ u_pc = "flavors"
    /\ \E net \in Nets : Step("flavors", list_flavors(net), "queue")
    /\ UNCHANGED <<u_q, uframe>>

\* A slip: an error of the queue selection is swallowed and the submission
\* goes on with the default queue.
SubmitQueue_GoesOn ==
    /\ u_pc = "queue"
    /\ \E platform \in SubmitPlatforms, flavor_id \in FlavorIds, buf \in BufferArgs :
          LET q == find_optimal_queue(platform, flavor_id, buf, DefaultQid,
                                      <<"q1", "q2">>)
          IN IF q.exc # None
             THEN /\ u_q' = DefaultQid
                  /\ u_pc' = "mounts"
                  /\ UNCHANGED <<u_steps, u_error, u_out>>
             ELSE /\ u_q' = q.val.Id
                  /\ Step("queue", q, "mounts")
    /\ UNCHANGED uframe

\* Lines 270-278
SubmitQueue ==
    /\ u_pc = "queue"
    /\ \E platform \in SubmitPlatforms, flavor_id \in FlavorIds, buf \in BufferArgs :
          LET q == find_optimal_queue(platform, flavor_id, buf, DefaultQid,
                                      <<"q1", "q2">>)
          IN /\ u_q' = IF q.exc # None THEN u_q ELSE q.val.Id
             /\ Step("queue", q, "mounts")
    /\ UNCHANGED uframe

\* Line 279
SubmitMounts ==
    /\ u_pc = "mounts"
    /\ \E sub_paths \in SubPaths, net \in Nets, running \in BOOLEAN,
          fileset_net \in {Failure, Response(OK, TRUE, "absent", "", "ok")} :
          Step("mounts", build_vepfs_storages(sub_paths, net, running, fileset_net),
               "form")
    /\ UNCHANGED <<u_q, uframe>>

\* Lines 281-311
SubmitForm ==
    /\ u_pc = "form"
    /\ \E form \in Forms : Step("form", TaskFormModel(form), "task")
    /\ UNCHANGED <<u_q, uframe>>

\* Lines 313-321: VolcMLPlatformTask(...) is called.
SubmitConstruct ==
    /\ u_pc = "task"
    /\ k_pc' = "create"
    /\ u_pc' = "construct"
    /\ UNCHANGED <<u_lark_client, u_handle, u_interval, u_steps, u_q, u_error, u_out,
                   tenv, ttask, tthread, thist, treader, twait,
                   k_args, k_exc, k_warnings, k_calls, tnote,
                   vvars, qvars, svars, pvars, gvars>>

\* __init__ returned the task or raised: the call is left.
SubmitReturn ==
    /\ u_pc = "construct"
    /\ k_pc \in {"done", "raised"}
    /\ Leave(IF k_pc = "done" THEN Return("task") ELSE Raise(k_exc))
    /\ UNCHANGED <<u_steps, u_q, uframe>>

UNext ==
    \/ SubmitName
    \/ SubmitImage
    \/ SubmitFlavors
    \/ SubmitQueue
    \/ SubmitMounts
    \/ SubmitForm
    \/ SubmitConstruct
    \/ CtorCreate
    \/ CtorQuery
    \/ CtorStart
    \/ SubmitReturn
    \/ TrackCheck
    \/ TrackSleep
    \/ TrackQuery
    \/ TrackLock
    \/ TrackStore
    \/ TrackFinally
    \/ TrackExit
    \/ PlatformAdvance
    \/ ServiceFlips

SpecSubmit == UInit /\ [][UNext]_vars

(***************************************************************************)
(* Vocabulary of the claims about submit_task.                             *)
(***************************************************************************)
UFinished == u_pc \in {"returned", "raised"}
\* A step of the submission raised an exception.
StepFailed == u_error.exc # None
\* The steps before CreateCustomTask, in the order of the claim.
AllSteps == <<"name", "image", "flavors", "queue", "mounts", "form">>
CreateIssued == \E i \in DOMAIN k_calls : k_calls[i] = "CreateCustomTask"

(***************************************************************************)
(* C15: with handle_exceptions=True, submit_task suppresses every          *)
(* exception raised at any step of submission (validation, queue           *)
(* selection, task creation, initial status query) and returns an empty    *)
(* result (None) instead; with the flag absent or False the same exception *)
(* propagates to the caller.                                               *)
(***************************************************************************)
C15_ExceptionsHandled ==
    /\ u_handle = "True" => u_pc # "raised"
    /\ (UFinished /\ StepFailed) =>
          IF u_handle = "True"
          THEN u_pc = "returned" /\ u_out = Return(None)
          ELSE u_pc = "raised" /\ u_out = u_error
    /\ (UFinished /\ ~ StepFailed) => (u_pc = "returned" /\ u_out = Return("task"))
    /\ k_pc = "raised" /\ UFinished => u_error = Raise(k_exc)

\* With handle_exceptions=True the initial status query failed after the
\* task had been created: the call returned None.
C15_Witness ==
    /\ u_handle = "True"
    /\ u_pc = "returned"
    /\ k_calls = <<"CreateCustomTask", "GetCustomTask">>
    /\ k_pc = "raised"
    /\ u_error = Raise("CallVolcAPIError")
    /\ u_out = Return(None)

(***************************************************************************)
(* C18: in submit_task the CreateCustomTask request is issued only after   *)
(* task-name validation, image validation, flavor listing, queue           *)
(* selection, filesystem-mount validation and form validation have all     *)
(* succeeded, in that order; if any of these steps fails, no task is       *)
(* created on the platform and no tracker thread is started.               *)
(***************************************************************************)
C18_CreateAfterValidation ==
    /\ u_steps = SubSeq(AllSteps, 1, Len(u_steps))
    /\ (CreateIssued \/ t_platform # NoTask \/ t_pc # "unstarted" \/ k_pc # "idle") =>
          u_steps = AllSteps
    /\ (UFinished /\ u_steps # AllSteps) =>
          /\ StepFailed
          /\ k_calls = <<>>
          /\ t_platform = NoTask
          /\ t_pc = "unstarted"

\* The form was refused after the five steps before it had succeeded, on a
\* backup queue: nothing was sent to create a task.
C18_Witness ==
    /\ u_pc = "raised"
    /\ u_steps = <<"name", "image", "flavors", "queue", "mounts">>
    /\ u_q = "q1"
    /\ u_error = Raise("ValidationError")
    /\ k_calls = <<>>

(***************************************************************************)
(* C21: if CreateCustomTask succeeds but the initial status query fails,   *)
(* constructing the task raises (or submit_task returns None under         *)
(* handle_exceptions=True), no tracker thread is started, and the caller   *)
(* receives no task object or task ID for the task that now exists on the  *)
(* platform.                                                               *)
(***************************************************************************)
\* __init__ sent both requests and the second one, the status query, failed.
QueryFailedAfterCreate ==
    /\ k_calls = <<"CreateCustomTask", "GetCustomTask">>
    /\ t_initial = NoStatus
    /\ k_pc # "query"

C21_CreatedButLost ==
    QueryFailedAfterCreate =>
       /\ t_platform # NoTask
       /\ k_pc = "raised"
       /\ k_exc = "CallVolcAPIError"
       /\ t_pc = "unstarted"
       /\ t_args = NoTrackArgs
       /\ u_out # Return("task")
       /\ UFinished =>
             u_out = IF u_handle = "True" THEN Return(None)
                     ELSE Raise("CallVolcAPIError")

\* Without handle_exceptions the failure of the status query reached the
\* caller of submit_task, and the task is on the platform.
C21_Witness ==
    /\ QueryFailedAfterCreate
    /\ t_platform # NoTask
    /\ u_handle = "absent"
    /\ u_pc = "raised"
    /\ u_out = Raise("CallVolcAPIError")
    /\ t_pc = "unstarted"

(***************************************************************************)
(* C22: a task created through submit_task never sends a chat              *)
(* notification, neither on creation nor on termination, even when the     *)
(* client was constructed with bot credentials, because submit_task passes *)
(* no chat client and no chat IDs to the task.                             *)
(***************************************************************************)
C22_SubmittedTaskIsSilent ==
    /\ n_sent = <<>>
    /\ ~ k_args.lark_client
    /\ group_chats(k_args.group_chat_ids) = <<>>
    /\ t_pc # "unstarted" => t_args.group_chat_ids = <<>>

\* The client has a chat client, the task it submitted ended and its thread
\* went through the notification of lines 172-176: nothing was sent.
C22_Witness ==
    /\ u_lark_client
    /\ u_pc = "returned"
    /\ u_out = Return("task")
    /\ t_pc = "done"
    /\ t_status.State \in terminal_task_states
    /\ t_args.send_notification
    /\ n_sent = <<>>

(***************************************************************************)
(* C23: for every pool with non-negative allocated quantities and every    *)
(* flavor with non-negative buffers, sufficient headroom implies           *)
(* sufficient total capacity: is_vacant_for(flavor, buffers) being true    *)
(* implies fit_flavor(flavor) is true, and raising any buffer never turns  *)
(* a non-qualifying pool into a qualifying one.                            *)
(***************************************************************************)
NonNegativeAllocated(q) ==
    /\ allocated_cpu(q) >= 0
    /\ allocated_memory(q) >= 0
    /\ \A t \in DOMAIN q.QuotaAllocated.GPUResources : allocated_gpu(q, t) >= 0
    /\ \A i \in DOMAIN q.VolumeAllocated : q.VolumeAllocated[i] >= 0
NonNegativeBuffers(buf) == buf.cpu >= 0 /\ buf.memory >= 0 /\ buf.volume >= 0
\* The buffers of the drawn call with some of them raised.
RaisedBuffers ==
    { [cpu |-> v_buf.cpu + d.cpu, memory |-> v_buf.memory + d.memory,
       volume |-> v_buf.volume + d.volume] :
         d \in [cpu : BufVals, memory : BufVals, volume : BufVals] }

C23_VacantImpliesFit ==
    (v_pc = "done" /\ NonNegativeAllocated(v_q) /\ NonNegativeBuffers(v_buf)) =>
       /\ v_vacant => v_fit
       /\ ~ v_vacant =>
             \A b \in RaisedBuffers :
                ~ is_vacant_for(v_q, v_flavor, b.cpu, b.memory, b.volume)

\* A pool with vCPUs allocated qualifies under buffers and fits; it stops
\* qualifying when the CPU buffer is raised by one.
C23_Witness ==
    /\ v_pc = "done"
    /\ allocated_cpu(v_q) > 0
    /\ v_buf.cpu > 0
    /\ v_buf.volume > 0
    /\ v_vacant = TRUE
    /\ v_fit = TRUE
    /\ ~ is_vacant_for(v_q, v_flavor, v_buf.cpu + 1, v_buf.memory, v_buf.volume)

(***************************************************************************)
(* SpecChats: one call of list_group_chats (utils.py 54-72, the same code  *)
(* as utils/feishu.py 62-80) against a chat service that answers every     *)
(* request with a failure or with a page of chat IDs and a page token.     *)
(***************************************************************************)
\* Most chat IDs the service serves during one call.
MaxIds == 3
\* Value at which the count of requests stops growing.
MaxRequests == 3

\* response.data.page_token: the empty string, no token at all, or a token.
PageTokens == {"", None, "t1", "t2"}
\* `while page_token:` (line 63): the truth value of a token.
Truthy(page_token) == page_token \notin {"", None}
\* [item.chat_id for item in response.data.items]
PageItems == { <<>>, <<"oc_a">>, <<"oc_b", "oc_a">> }

ListChatResponse(success, items, page_token) ==
    [success |-> success, items |-> items, page_token |-> page_token]
FailedResponse == ListChatResponse(FALSE, <<>>, "")
NoResponse == ListChatResponse(FALSE, <<>>, None)
Pages == { ListChatResponse(TRUE, items, page_token) :
             items \in PageItems, page_token \in PageTokens }
Responses == {FailedResponse} \cup Pages
\* The responses after which list_group_chats asks for no further page.
LastResponses == { r \in Responses : ~ r.success \/ ~ Truthy(r.page_token) }

GInit ==
    /\ g_pc = "call"
    /\ g_response = NoResponse
    /\ g_chat_ids = <<>>
    /\ g_page_token = ""
    /\ g_out = <<>>
    /\ g_sent = ""
    /\ g_requests = 0
    /\ g_served = <<>>
    /\ VIdle
    /\ QIdle
    /\ TIdle
    /\ SIdle
    /\ PIdle
    /\ UIdle

gframe == <<vvars, qvars, tvars, svars, pvars, uvars>>

\* _get_list_group_chats_response_single_page (lines 42-51): the request
\* carries page_token and the service answers with one of `responses`.
get_single_page(page_token, responses, next) ==
    \E response \in responses :
       /\ Len(g_served) + Len(response.items) <= MaxIds
       /\ g_response' = response
       /\ g_sent' = page_token
       /\ g_requests' = Min(g_requests + 1, MaxRequests)
       /\ g_served' = IF response.success THEN g_served \o response.items
                      ELSE g_served
       /\ g_pc' = next

\* Lines 55-57: the first page is asked for with the empty token.
ListFirstPage ==
    /\ g_pc = "call"
    /\ get_single_page("", Responses, "first")
    /\ UNCHANGED <<g_chat_ids, g_page_token, g_out, gframe>>

\* Lines 58-61
ListTakeFirst ==
    /\ g_pc = "first"
    /\ IF ~ g_response.success
       THEN /\ g_out' = <<>>
            /\ g_pc' = "done"
            /\ UNCHANGED <<g_chat_ids, g_page_token>>
       ELSE /\ g_chat_ids' = g_response.items
            /\ g_page_token' = g_response.page_token
            /\ g_pc' = "while"
            /\ UNCHANGED g_out
    /\ UNCHANGED <<g_response, g_sent, g_requests, g_served, gframe>>

\* Lines 63-66: the token is not empty and the next page is asked for.
ListPage(responses) ==
    /\ g_pc = "while"
    /\ Truthy(g_page_token)
    /\ get_single_page(g_page_token, responses, "page")
    /\ UNCHANGED <<g_chat_ids, g_page_token, g_out, gframe>>

ListNextPage == ListPage(Responses)
\* The service answers with a failure or with a page that has no token.
ListLastPage == ListPage(LastResponses)

\* A slip: the IDs of the new page replace the ones collected.
ListTakePage_Replaces ==
    /\ g_pc = "page"
    /\ IF ~ g_response.success
       THEN /\ g_out' = g_chat_ids
            /\ g_pc' = "done"
            /\ UNCHANGED <<g_chat_ids, g_page_token>>
       ELSE /\ g_chat_ids' = g_response.items
            /\ g_page_token' = g_response.page_token
            /\ g_pc' = "while"
            /\ UNCHANGED g_out
    /\ UNCHANGED <<g_response, g_sent, g_requests, g_served, gframe>>

\* Lines 67-70
ListTakePage ==
    /\ g_pc = "page"
    /\ IF ~ g_response.success
       THEN /\ g_out' = g_chat_ids
            /\ g_pc' = "done"
            /\ UNCHANGED <<g_chat_ids, g_page_token>>
       ELSE /\ g_chat_ids' = g_chat_ids \o g_response.items
            /\ g_page_token' = g_response.page_token
            /\ g_pc' = "while"
            /\ UNCHANGED g_out
    /\ UNCHANGED <<g_response, g_sent, g_requests, g_served, gframe>>

\* Lines 63 and 72: the token is empty, the loop is left.
ListReturn ==
    /\ g_pc = "while"
    /\ ~ Truthy(g_page_token)
    /\ g_out' = g_chat_ids
    /\ g_pc' = "done"
    /\ UNCHANGED <<g_response, g_chat_ids, g_page_token, g_sent, g_requests,
                   g_served, gframe>>

GNext ==
    \/ ListFirstPage
    \/ ListTakeFirst
    \/ ListNextPage
    \/ ListTakePage
    \/ ListReturn

SpecChats == GInit /\ [][GNext]_vars
\* The call runs on, and the service does not answer with a page that has a
\* token forever.
LiveChats == SpecChats /\ WF_vars(GNext) /\ SF_vars(ListLastPage)

(***************************************************************************)
(* C24: list_group_chats enumerates chat destinations by page token: it    *)
(* returns the chat IDs of all pages concatenated in page order, following *)
(* each returned page token until a page returns an empty token; a failed  *)
(* first page yields an empty list, a failed later page yields the IDs     *)
(* collected so far, and the loop terminates whenever the service          *)
(* eventually returns an empty page token or a failure.                    *)
(***************************************************************************)
ListDone == g_pc = "done"
PagesInOrder ==
    /\ g_pc = "first" => g_sent = ""
    /\ g_pc = "page" => (Truthy(g_sent) /\ g_sent = g_page_token)
    /\ g_pc = "while" =>
          (g_page_token = g_response.page_token /\ g_chat_ids = g_served)
    /\ ListDone =>
          /\ g_response \in LastResponses
          /\ g_out = g_served
          /\ (g_requests = 1 /\ ~ g_response.success) => g_out = <<>>
          /\ g_response.success => g_page_token = g_response.page_token

C24_ListGroupChats == [] PagesInOrder /\ <> ListDone

\* Three pages were asked for, the third was empty and had no token: the IDs
\* of the first two pages are returned in the order of the pages.
C24_Witness ==
    /\ ListDone
    /\ g_requests = 3
    /\ g_response = ListChatResponse(TRUE, <<>>, None)
    /\ g_sent = "t2"
    /\ g_out = <<"oc_a", "oc_b", "oc_a">>

====
